---- MODULE Spec2Model ----
(***************************************************************************)
(* Model of the agent-service chat turn: the /chat/stream generator        *)
(* (app/api/chat.py), the workflow executor (app/core/workflow.py), the    *)
(* router and specialist agents (app/agents/*.py), the JSON step of the    *)
(* LLM client (app/core/llm_client.py), the pydantic response models      *)
(* (app/models/agents.py) and the response-language functions              *)
(* (app/core/language_manager.py, app/core/language_detector.py).          *)
(* Spec is one chat turn; LangSpec applies the language functions to       *)
(* texts of their own; ConcSpec runs two turns on the one executor;        *)
(* ExecSpec is a turn run by execute; CheckSpec is the router check        *)
(* (app/api/router_check.py); AnomalySpec and MonitorSpec are the anomaly  *)
(* detector and the real-time monitor (app/core/hardware_interface.py,     *)
(* app/api/hardware.py).                                                   *)
(*                                                                         *)
(* A JSON value is a record [t, s, n, l]: t is the JSON type, s the text   *)
(* of a string, n a number in hundredths (0.5 is 50), l the items of a     *)
(* list or mapping as [k, v] pairs (k = "" for list items).  A JSON object *)
(* is a function from field names to JSON values.  A text is a tuple of    *)
(* one-character strings so that substring tests can be computed.          *)
(* A character outside ASCII is written as its code point ("U+533B"); the  *)
(* Chinese sentences of the default records are given in English.          *)
(***************************************************************************)
EXTENDS Integers, Sequences, FiniteSets, TLC

(* ---------------------------------------------------------------- bounds *)
\* the longest list the gateway puts in a list field of an answer
MaxItems == 1

(* ----------------------------------------------------------- JSON values *)
JStr(x) == [t |-> "str", s |-> x, n |-> 0, l |-> <<>>]
JNum(x) == [t |-> "num", s |-> "", n |-> x, l |-> <<>>]
JBool(b) == [t |-> "bool", s |-> "", n |-> IF b THEN 100 ELSE 0, l |-> <<>>]
JNull == [t |-> "null", s |-> "", n |-> 0, l |-> <<>>]
\* the items of a list and the entries of a mapping: k is the key ("" in a
\* list), t the type of the value, v its text (str(value) for a number), l the
\* entries of a value that is itself a mapping
Item(x) == [k |-> "", v |-> x, t |-> "str", l |-> <<>>]
NumItem(x) == [k |-> "", v |-> x, t |-> "num", l |-> <<>>]
DictItem(pairs) == [k |-> "", v |-> "{...}", t |-> "dict", l |-> pairs]
Pair(key, x) == [k |-> key, v |-> x, t |-> "str", l |-> <<>>]

\* a list of strings, a list of any items, a mapping
JList(items) == [t |-> "list", s |-> "", n |-> 0, l |-> [i \in 1..Len(items) |-> Item(items[i])]]
JListOf(items) == [t |-> "list", s |-> "", n |-> 0, l |-> items]
JDict(pairs) == [t |-> "dict", s |-> "", n |-> 0, l |-> pairs]

\* Python truthiness of a JSON value (`not result["safety_note"]`)
Truthy(v) ==
    CASE v.t = "str" -> v.s # ""
      [] v.t = "num" -> v.n # 0
      [] v.t = "bool" -> v.n # 0
      [] v.t = "null" -> FALSE
      [] OTHER -> Len(v.l) > 0

\* pydantic field validation (lax mode) of the annotations used by the models
IsStr(v) == v.t = "str"
IsOptStr(v) == v.t \in {"str", "null"}
IsFloat(v) == v.t \in {"num", "bool"}
IsBool(v) ==
    \/ v.t = "bool"
    \/ v.t = "num" /\ v.n \in {0, 100}
    \/ v.t = "str" /\ v.s \in {"true", "false", "yes", "no", "1", "0", "on", "off", "y", "n", "t", "f"}
\* the value a validated bool field takes
BoolOf(v) == IF v.t = "str" THEN v.s \in {"true", "yes", "1", "on", "y", "t"} ELSE v.n # 0
IsStrList(v) == v.t = "list" /\ \A i \in 1..Len(v.l) : v.l[i].t = "str"
IsLiteral(v, allowed) == v.t = "str" /\ v.s \in allowed

Has(obj, f) == f \in DOMAIN obj
\* dict(obj, f = v): obj with field f set
With(obj, f, v) == [g \in (DOMAIN obj) \cup {f} |-> IF g = f THEN v ELSE obj[g]]
\* obj without field f
Without(obj, f) == [g \in (DOMAIN obj) \ {f} |-> obj[g]]

(* ------------------------------------------------------------------ text *)
\* sub occurs in txt (Python `sub in txt`)
Contains(txt, sub) ==
    \E i \in 0..(Len(txt) - Len(sub)) :
        \A j \in 1..Len(sub) : txt[i + j] = sub[j]

\* the characters str.strip() removes
Whitespace == {" ", "\n", "\t", "U+3000"}

RECURSIVE LStrip(_)
LStrip(txt) == IF txt # <<>> /\ Head(txt) \in Whitespace THEN LStrip(Tail(txt)) ELSE txt
RECURSIVE RStrip(_)
RStrip(txt) ==
    IF txt # <<>> /\ txt[Len(txt)] \in Whitespace THEN RStrip(SubSeq(txt, 1, Len(txt) - 1)) ELSE txt
\* str.strip()
Strip(txt) == RStrip(LStrip(txt))

(* --------------------------------------------------------- model gateway *)
\* What one call of LLMClient.generate_response hands back, seen after
\* json.loads: "fail" is a gateway failure, timeout or empty text (None),
\* "garbage" is text that is not JSON, "scalar" is JSON that is no container
\* (a number, null), "array" is a JSON array, "object" is a JSON object.
\* The text may come wrapped in a Markdown code fence ("U+0060" is the
\* backtick): fence holds what stands
\* before and after the JSON document in the response text.
NoFence == [open |-> <<>>, close |-> <<>>]
\* ```tag, a line break, the document, a line break, ```
Fence(tag) == [open |-> <<"U+0060", "U+0060", "U+0060">> \o tag \o <<"\n">>, close |-> <<"\n", "U+0060", "U+0060", "U+0060">>]

Fail == [kind |-> "fail", obj |-> <<>>, fence |-> NoFence]
Garbage == [kind |-> "garbage", obj |-> <<>>, fence |-> NoFence]
Scalar == [kind |-> "scalar", obj |-> <<>>, fence |-> NoFence]
Array == [kind |-> "array", obj |-> <<>>, fence |-> NoFence]
Object(o) == [kind |-> "object", obj |-> o, fence |-> NoFence]
\* the same answer inside a code fence
Fenced(g, tag) == [g EXCEPT !.fence = Fence(tag)]

\* the response text: the JSON document is one token of the text
Document == "{...}"
ResponseText(g) == g.fence.open \o <<Document>> \o g.fence.close

\* str.startswith, str.endswith
StartsWith(txt, sub) == Len(txt) >= Len(sub) /\ SubSeq(txt, 1, Len(sub)) = sub
EndsWith(txt, sub) == Len(txt) >= Len(sub) /\ SubSeq(txt, Len(txt) - Len(sub) + 1, Len(txt)) = sub

\* the cleaning of the response text before json.loads
CleanText(response_text) ==
    LET stripped == Strip(response_text)
        headless == IF StartsWith(stripped, <<"U+0060", "U+0060", "U+0060", "j", "s", "o", "n">>)
                    THEN SubSeq(stripped, 8, Len(stripped))
                    ELSE stripped
        tailless == IF EndsWith(headless, <<"U+0060", "U+0060", "U+0060">>)
                    THEN SubSeq(headless, 1, Len(headless) - 3)
                    ELSE headless
    IN  Strip(tailless)

\* json.loads(cleaned_text) does not raise JSONDecodeError: the document is
\* JSON and the cleaned text is the document and nothing else
Parses(g) == g.kind # "garbage" /\ CleanText(ResponseText(g)) = <<Document>>

\* f"{key}: {value}" for every item of a mapping
KeyedItems(pairs) == [i \in 1..Len(pairs) |-> Item(pairs[i].k \o ": " \o pairs[i].v)]

\* mutant: a mapping is flattened to its values, the keys are dropped
DictToList_values(v) ==
    [t |-> "list", s |-> "", n |-> 0, l |-> [i \in 1..Len(v.l) |-> Item(v.l[i].v)]]

DictToList(v) == [t |-> "list", s |-> "", n |-> 0, l |-> KeyedItems(v.l)]

PairValue(pairs, key) == (CHOOSE i \in 1..Len(pairs) : pairs[i].k = key) 
HasKey(pairs, key) == \E i \in 1..Len(pairs) : pairs[i].k = key

HandoffText(v) ==
    IF HasKey(v.l, "target") /\ HasKey(v.l, "reason")
    THEN JStr("Target: " \o v.l[PairValue(v.l, "target")].v \o ". Reason: " \o v.l[PairValue(v.l, "reason")].v)
    ELSE JStr("{...}")

\* the repairs generate_json_response applies to a parsed object
RenameTarget(o) ==
    IF Has(o, "target") /\ ~Has(o, "next") THEN Without(With(o, "next", o["target"]), "target") ELSE o
RepairMapping(o, f) ==
    IF Has(o, f) /\ o[f].t = "dict" THEN With(o, f, DictToList(o[f])) ELSE o
RepairHandoff(o) ==
    IF Has(o, "handoff") /\ o["handoff"].t = "dict" THEN With(o, "handoff", HandoffText(o["handoff"])) ELSE o

\* ": ".join([str(v) for v in item.values()])
RECURSIVE JoinValues(_)
JoinValues(pairs) ==
    IF pairs = <<>> THEN ""
    ELSE IF Len(pairs) = 1 THEN pairs[1].v
    ELSE pairs[1].v \o ": " \o JoinValues(Tail(pairs))

\* the entry of a mapping item under a key, as a list item
Entry(item, key) == [item.l[PairValue(item.l, key)] EXCEPT !.k = ""]

\* what the repair loop of a list field appends for one item
RepairItem(item, f) ==
    IF item.t # "dict" THEN Item(item.v)
    ELSE CASE f = "tips" /\ HasKey(item.l, "title") /\ HasKey(item.l, "content") ->
                Item(Entry(item, "title").v \o ": " \o Entry(item, "content").v)
           [] f = "next_actions" /\ HasKey(item.l, "action") -> Entry(item, "action")
           [] f = "plan" /\ HasKey(item.l, "step") /\ HasKey(item.l, "description") ->
                Item("U+6B65U+9AA4" \o Entry(item, "step").v \o ": " \o Entry(item, "description").v)
           [] f = "env_setup" /\ HasKey(item.l, "item") -> Entry(item, "item")
           [] OTHER -> Item(JoinValues(item.l))

\* the repair of a list field that came as a list: every item is rebuilt
RepairList(o, f) ==
    IF Has(o, f) /\ o[f].t = "list"
    THEN With(o, f, JListOf([i \in 1..Len(o[f].l) |-> RepairItem(o[f].l[i], f)]))
    ELSE o

\* the repairs in the order generate_json_response applies them
RepairObject(o) ==
    LET r1 == RenameTarget(o)
        r2 == RepairMapping(r1, "meal_plan")
        r3 == RepairList(r2, "tips")
        r4 == RepairList(r3, "next_actions")
        r5 == RepairList(r4, "plan")
        r6 == RepairMapping(r5, "exercise")
        r7 == IF Has(r6, "env_setup") /\ r6["env_setup"].t = "dict"
              THEN RepairMapping(r6, "env_setup")
              ELSE RepairList(r6, "env_setup")
    IN  RepairHandoff(r7)

\* LLMClient.generate_json_response: "none" is the None result, "raise" an
\* exception other than JSONDecodeError (membership test on a scalar)
generate_json_response(g) ==
    CASE g.kind = "fail" -> [kind |-> "none", obj |-> <<>>]
      [] ~Parses(g) -> [kind |-> "none", obj |-> <<>>]
      [] g.kind = "scalar" -> [kind |-> "raise", obj |-> <<>>]
      [] g.kind = "array" -> [kind |-> "array", obj |-> <<>>]
      [] OTHER -> [kind |-> "object", obj |-> RepairObject(g.obj)]

\* BaseAgent._call_llm: a None result is turned into an exception
call_llm(g) ==
    LET r == generate_json_response(g)
    IN  IF r.kind = "none" THEN [kind |-> "raise", obj |-> <<>>] ELSE r

\* BaseAgent._validate_response
validate_response(r, required_fields) ==
    /\ r.kind = "object"
    /\ \A f \in required_fields : Has(r.obj, f)

(* ------------------------------------------------------- response models *)
\* pydantic construction Model(**result): the fields of the model, their
\* validators and their defaults.  Fields the model does not declare are
\* ignored; the result must be a mapping.
Field(r, f, default) == IF Has(r.obj, f) THEN r.obj[f] ELSE default

ValidTargets == {"router", "doctor", "nutritionist", "trainer", "faq", "avatar"}

RouterResponseValid(r) ==
    /\ r.kind = "object"
    /\ Has(r.obj, "next") /\ IsLiteral(r.obj["next"], ValidTargets)
    /\ Has(r.obj, "reason") /\ IsStr(r.obj["reason"])
    /\ Has(r.obj, "confidence") /\ IsFloat(r.obj["confidence"])
    /\ Has(r.obj, "response_preview") /\ IsStr(r.obj["response_preview"])
    /\ IsOptStr(Field(r, "transfer_message", JNull))
    /\ IsBool(Field(r, "needs_pet_status", JBool(FALSE)))

RouterResponse(r) ==
    [next |-> r.obj["next"].s,
     reason |-> r.obj["reason"].s,
     confidence |-> r.obj["confidence"].n,
     response_preview |-> r.obj["response_preview"].s,
     transfer_message |-> Field(r, "transfer_message", JNull),
     needs_pet_status |-> BoolOf(Field(r, "needs_pet_status", JBool(FALSE)))]

(* ---------------------------------------------------------- router agent *)
\* mutant: the except branch answers with the mid confidence
RouterDefault_halfConfidence ==
    [next |-> "router",
     reason |-> "system error, please describe again",
     confidence |-> 50,
     response_preview |-> "need more information",
     transfer_message |-> JNull,
     needs_pet_status |-> FALSE]

\* the record RouterAgent.process returns from its except branch
RouterDefault ==
    [next |-> "router",
     reason |-> "system error, please describe again",
     confidence |-> 10,
     response_preview |-> "need more information",
     transfer_message |-> JNull,
     needs_pet_status |-> FALSE]

RouterRequired == {"next", "reason", "confidence", "response_preview"}

\* mutant: an unknown target is sent to the doctor
CoerceNext_doctor(o) ==
    IF IsLiteral(o["next"], ValidTargets) THEN o ELSE With(o, "next", JStr("doctor"))

\* result["next"] not in valid_targets  ->  result["next"] = "router"
CoerceNext(o) ==
    IF IsLiteral(o["next"], ValidTargets) THEN o ELSE With(o, "next", JStr("router"))

\* not isinstance(confidence, (int, float)) or confidence < 0 or confidence > 1
CoerceConfidence(o) ==
    LET c == o["confidence"]
    IN  IF ~(c.t \in {"num", "bool"}) \/ c.n < 0 \/ c.n > 100
        THEN With(o, "confidence", JNum(50))
        ELSE o

\* the try block of RouterAgent.process failed (LLM call, required fields,
\* or RouterResponse validation)
RouterFailed(g) ==
    LET r == call_llm(g)
    IN  \/ ~validate_response(r, RouterRequired)
        \/ ~RouterResponseValid([kind |-> "object", obj |-> CoerceConfidence(CoerceNext(r.obj))])

RouterAgent_process(g) ==
    LET r == call_llm(g)
    IN  IF RouterFailed(g)
        THEN RouterDefault
        ELSE RouterResponse([kind |-> "object", obj |-> CoerceConfidence(CoerceNext(r.obj))])

(* ----------------------------------------------------- specialist models *)
Texts(v) == [i \in 1..Len(v.l) |-> v.l[i].v]
AsObject(o) == [kind |-> "object", obj |-> o]

RiskLevels == {"low", "medium", "high"}

DoctorResponseValid(r) ==
    /\ r.kind = "object"
    /\ Has(r.obj, "assessment") /\ IsStr(r.obj["assessment"])
    /\ Has(r.obj, "risk_level") /\ IsLiteral(r.obj["risk_level"], RiskLevels)
    /\ Has(r.obj, "watchouts") /\ IsStrList(r.obj["watchouts"])
    /\ Has(r.obj, "next_actions") /\ IsStrList(r.obj["next_actions"])
    /\ Has(r.obj, "when_to_see_vet") /\ IsStr(r.obj["when_to_see_vet"])
    /\ IsOptStr(Field(r, "handoff", JNull))
    /\ IsStr(Field(r, "safety_note", JStr("")))

DoctorResponse(r) ==
    [assessment |-> r.obj["assessment"].s,
     risk_level |-> r.obj["risk_level"].s,
     watchouts |-> Texts(r.obj["watchouts"]),
     next_actions |-> Texts(r.obj["next_actions"]),
     when_to_see_vet |-> r.obj["when_to_see_vet"].s,
     handoff |-> Field(r, "handoff", JNull),
     safety_note |-> Field(r, "safety_note", JStr("")).s]

NutritionistResponseValid(r) ==
    /\ r.kind = "object"
    /\ Has(r.obj, "summary") /\ IsStr(r.obj["summary"])
    /\ Has(r.obj, "meal_plan") /\ IsStrList(r.obj["meal_plan"])
    /\ Has(r.obj, "avoid_list") /\ IsStrList(r.obj["avoid_list"])
    /\ Has(r.obj, "tips") /\ IsStrList(r.obj["tips"])
    /\ IsOptStr(Field(r, "handoff", JNull))
    /\ IsStr(Field(r, "safety_note", JStr("")))

NutritionistResponse(r) ==
    [summary |-> r.obj["summary"].s,
     meal_plan |-> Texts(r.obj["meal_plan"]),
     avoid_list |-> Texts(r.obj["avoid_list"]),
     tips |-> Texts(r.obj["tips"]),
     handoff |-> Field(r, "handoff", JNull),
     safety_note |-> Field(r, "safety_note", JStr("")).s]

TrainerResponseValid(r) ==
    /\ r.kind = "object"
    /\ Has(r.obj, "plan") /\ IsStrList(r.obj["plan"])
    /\ Has(r.obj, "exercise") /\ IsStrList(r.obj["exercise"])
    /\ Has(r.obj, "env_setup") /\ IsStrList(r.obj["env_setup"])
    /\ Has(r.obj, "warnings") /\ IsStrList(r.obj["warnings"])
    /\ IsOptStr(Field(r, "handoff", JNull))

TrainerResponse(r) ==
    [plan |-> Texts(r.obj["plan"]),
     exercise |-> Texts(r.obj["exercise"]),
     env_setup |-> Texts(r.obj["env_setup"]),
     warnings |-> Texts(r.obj["warnings"]),
     handoff |-> Field(r, "handoff", JNull)]

FaqSources == {"builtin", "generic", "U+5E38U+8BC6", "General knowledge", "general", "U+901AU+7528U+77E5U+8BC6"}

SimpleFAQResponseValid(r) ==
    /\ r.kind = "object"
    /\ Has(r.obj, "answer") /\ IsStr(r.obj["answer"])
    /\ Has(r.obj, "source") /\ IsLiteral(r.obj["source"], FaqSources)
    /\ IsOptStr(Field(r, "handoff", JNull))
    /\ IsOptStr(Field(r, "safety_note", JNull))

SimpleFAQResponse(r) ==
    [answer |-> r.obj["answer"].s,
     source |-> r.obj["source"].s,
     handoff |-> Field(r, "handoff", JNull),
     safety_note |-> Field(r, "safety_note", JNull)]

Qualities == {"standard", "hd"}

AvatarResponseValid(r) ==
    /\ r.kind = "object"
    /\ Has(r.obj, "style") /\ IsStr(r.obj["style"])
    /\ Has(r.obj, "quality") /\ IsLiteral(r.obj["quality"], Qualities)
    /\ Has(r.obj, "notes") /\ IsStr(r.obj["notes"])
    /\ Has(r.obj, "ok_to_generate") /\ IsBool(r.obj["ok_to_generate"])
    /\ IsOptStr(Field(r, "handoff", JNull))

AvatarResponse(r) ==
    [style |-> r.obj["style"].s,
     quality |-> r.obj["quality"].s,
     notes |-> r.obj["notes"].s,
     ok_to_generate |-> BoolOf(r.obj["ok_to_generate"]),
     handoff |-> Field(r, "handoff", JNull)]

(* ----------------------------------------------------- specialist agents *)
\* Each agent's process is given as: <Agent>First(g), the try block of
\* process with gateway outcome g, yielding [ok, resp]; and, for the agents
\* that have one, <Agent>Fallback(g), _generate_fallback_response with
\* gateway outcome g, which always returns a response.
Done(resp) == [ok |-> TRUE, resp |-> resp]
Raised == [ok |-> FALSE, resp |-> <<>>]

DoctorRequired == {"assessment", "risk_level", "watchouts", "next_actions", "when_to_see_vet"}
DoctorDisclaimer == "Please consult a professional veterinarian for medical advice."

\* mutant: the risk level is passed on as the model gave it
CoerceRisk_keep(o) == o

CoerceRisk(o) ==
    IF IsLiteral(o["risk_level"], RiskLevels) THEN o ELSE With(o, "risk_level", JStr("medium"))

\* if "safety_note" not in result or not result["safety_note"]
DoctorSafetyNote(o) ==
    IF ~Has(o, "safety_note") \/ ~Truthy(o["safety_note"])
    THEN With(o, "safety_note", JStr(DoctorDisclaimer))
    ELSE o

DoctorFirst(g) ==
    LET r == call_llm(g)
    IN  IF ~validate_response(r, DoctorRequired)
        THEN Raised
        ELSE LET fixed == AsObject(DoctorSafetyNote(CoerceRisk(r.obj)))
             IN  IF DoctorResponseValid(fixed) THEN Done(DoctorResponse(fixed)) ELSE Raised

\* mutant: the static record leaves the disclaimer out
DoctorStatic_noNote ==
    [assessment |-> "Please provide more details about your pet's health concern",
     risk_level |-> "medium",
     watchouts |-> <<"Monitor symptoms closely">>,
     next_actions |-> <<"Contact a veterinarian for professional advice">>,
     when_to_see_vet |-> "If symptoms persist or worsen, seek veterinary care immediately",
     handoff |-> JNull,
     safety_note |-> ""]

DoctorStatic ==
    [assessment |-> "Please provide more details about your pet's health concern",
     risk_level |-> "medium",
     watchouts |-> <<"Monitor symptoms closely">>,
     next_actions |-> <<"Contact a veterinarian for professional advice">>,
     when_to_see_vet |-> "If symptoms persist or worsen, seek veterinary care immediately",
     handoff |-> JNull,
     safety_note |-> "Please consult a professional veterinarian for medical advice"]

DoctorFallback(g) ==
    LET r == call_llm(g)
    IN  IF DoctorResponseValid(r) THEN DoctorResponse(r) ELSE DoctorStatic

NutritionistRequired == {"summary", "meal_plan", "avoid_list", "tips"}
NutritionistDisclaimer == "Please consult a professional nutritionist for dietary advice."

\* if "safety_note" not in result
NutritionistSafetyNote(o) ==
    IF ~Has(o, "safety_note") THEN With(o, "safety_note", JStr(NutritionistDisclaimer)) ELSE o

NutritionistFirst(g) ==
    LET r == call_llm(g)
    IN  IF ~validate_response(r, NutritionistRequired)
        THEN Raised
        ELSE LET fixed == AsObject(NutritionistSafetyNote(r.obj))
             IN  IF NutritionistResponseValid(fixed) THEN Done(NutritionistResponse(fixed)) ELSE Raised

NutritionistStatic ==
    [summary |-> "Please provide more details about your pet's nutrition needs",
     meal_plan |-> <<"Consult a professional nutritionist for personalized diet plan">>,
     avoid_list |-> <<"Chocolate, grapes, onions and other toxic foods">>,
     tips |-> <<"Feed on schedule", "Provide adequate water", "Record weight changes regularly">>,
     handoff |-> JNull,
     safety_note |-> "Please consult a professional nutritionist for dietary advice"]

NutritionistFallback(g) ==
    LET r == call_llm(g)
    IN  IF NutritionistResponseValid(r) THEN NutritionistResponse(r) ELSE NutritionistStatic

\* str(value)
PyStr(v) ==
    CASE v.t = "str" -> v.s
      [] v.t = "num" -> ToString(v.n)
      [] v.t = "bool" -> IF v.n # 0 THEN "True" ELSE "False"
      [] v.t = "null" -> "None"
      [] OTHER -> "[...]"

\* list(mapping.values())
ValuesList(v) == [t |-> "list", s |-> "", n |-> 0, l |-> [i \in 1..Len(v.l) |-> [v.l[i] EXCEPT !.k = ""]]]
EmptyList == [t |-> "list", s |-> "", n |-> 0, l |-> <<>>]
Singleton(x) == [t |-> "list", s |-> "", n |-> 0, l |-> <<Item(x)>>]

\* mutant: the field is wrapped without asking whether it is a list already
FixListField_noListCheck(o, f) ==
    IF ~Has(o, f) THEN o
    ELSE IF o[f].t = "dict" THEN With(o, f, ValuesList(o[f]))
    ELSE IF Truthy(o[f]) THEN With(o, f, Singleton(PyStr(o[f])))
    ELSE With(o, f, EmptyList)

\* TrainerAgent._fix_response_format, one field
FixListField(o, f) ==
    IF ~Has(o, f) \/ o[f].t = "list" THEN o
    ELSE IF o[f].t = "dict" THEN With(o, f, ValuesList(o[f]))
    ELSE IF Truthy(o[f]) THEN With(o, f, Singleton(PyStr(o[f])))
    ELSE With(o, f, EmptyList)

fix_response_format(r) ==
    IF r.kind # "object" THEN r
    ELSE AsObject(FixListField(FixListField(FixListField(FixListField(r.obj, "warnings"), "plan"), "exercise"), "env_setup"))

TrainerRequired == {"plan", "exercise", "env_setup", "warnings"}

TrainerFirst(g) ==
    LET r == call_llm(g)
    IN  IF r.kind = "raise" THEN Raised
        ELSE LET fixed == fix_response_format(r)
             IN  IF validate_response(fixed, TrainerRequired) /\ TrainerResponseValid(fixed)
                 THEN Done(TrainerResponse(fixed))
                 ELSE Raised

TrainerStatic ==
    [plan |-> <<"Please provide more details about your training goals">>,
     exercise |-> <<"Daily moderate exercise recommended">>,
     env_setup |-> <<"Choose a quiet, safe training environment">>,
     warnings |-> <<"Stop training if aggressive behavior occurs">>,
     handoff |-> JNull]

TrainerFallback(g) ==
    LET r == call_llm(g)
    IN  IF r.kind # "raise" /\ TrainerResponseValid(fix_response_format(r))
        THEN TrainerResponse(fix_response_format(r))
        ELSE TrainerStatic

\* get_builtin_faq_data: the questions, each split into its keywords
BuiltinFaq ==
    <<<<<<"H", "o", "w">>, <<"t", "o">>, <<"c", "l", "e", "a", "n">>, <<"c", "o", "l", "l", "a", "r">>>>,
      <<<<"H", "o", "w">>, <<"t", "o">>, <<"p", "a", "i", "r">>, <<"d", "e", "v", "i", "c", "e">>>>,
      <<<<"D", "a", "t", "a">>, <<"s", "y", "n", "c">>, <<"i", "s", "s", "u", "e", "s">>>>,
      <<<<"C", "h", "a", "r", "g", "i", "n", "g">>, <<"m", "e", "t", "h", "o", "d">>>>,
      <<<<"W", "a", "t", "e", "r", "p", "r", "o", "o", "f">>, <<"r", "a", "t", "i", "n", "g">>>>>>

\* any(keyword in user_msg for keyword in question.split())
FaqMatches(user_msg, q) == \E i \in 1..Len(BuiltinFaq[q]) : Contains(user_msg, BuiltinFaq[q][i])

\* index of the first built-in question that matches, 0 when none does
BuiltinMatch(last_user_msg) ==
    LET user_msg == Strip(last_user_msg)
        hits == {q \in 1..Len(BuiltinFaq) : FaqMatches(user_msg, q)}
    IN  IF hits = {} THEN 0 ELSE CHOOSE q \in hits : \A h \in hits : q <= h

BuiltinAnswer(q) ==
    [answer |-> "builtin answer " \o ToString(q), source |-> "builtin", handoff |-> JNull, safety_note |-> JNull]

FaqRequired == {"answer", "source"}
FaqDisclaimer == "FAQ information only, consult specialists for specific issues."

FaqSafetyNote(o) ==
    IF ~Has(o, "safety_note") THEN With(o, "safety_note", JStr(FaqDisclaimer)) ELSE o

FaqStatic ==
    [answer |-> "sorry, cannot answer this question for now", source |-> "generic",
     handoff |-> JStr("router"), safety_note |-> JNull]

\* the part of SimpleFAQAgent.process after the built-in lookup found nothing
FaqFirst(g) ==
    LET r == call_llm(g)
    IN  IF ~validate_response(r, FaqRequired)
        THEN Raised
        ELSE LET fixed == AsObject(FaqSafetyNote(r.obj))
             IN  IF SimpleFAQResponseValid(fixed) THEN Done(SimpleFAQResponse(fixed)) ELSE Raised

AvatarRequired == {"style", "quality", "notes", "ok_to_generate"}

CoerceQuality(o) ==
    IF IsLiteral(o["quality"], Qualities) THEN o ELSE With(o, "quality", JStr("standard"))

AvatarStatic ==
    [style |-> "", quality |-> "standard", notes |-> "sorry, cannot handle the avatar request",
     ok_to_generate |-> FALSE, handoff |-> JStr("router")]

AvatarFirst(g) ==
    LET r == call_llm(g)
    IN  IF ~validate_response(r, AvatarRequired)
        THEN Raised
        ELSE LET fixed == AsObject(CoerceQuality(r.obj))
             IN  IF AvatarResponseValid(fixed) THEN Done(AvatarResponse(fixed)) ELSE Raised

(* ------------------------------------------------------ transfer notice *)
LowerOf == "A" :> "a" @@ "B" :> "b" @@ "C" :> "c" @@ "D" :> "d" @@ "E" :> "e" @@ "F" :> "f" @@ "G" :> "g" @@ "H" :> "h" @@ "I" :> "i" @@ "J" :> "j" @@ "K" :> "k" @@ "L" :> "l" @@ "M" :> "m" @@ "N" :> "n" @@ "O" :> "o" @@ "P" :> "p" @@ "Q" :> "q" @@ "R" :> "r" @@ "S" :> "s" @@ "T" :> "t" @@ "U" :> "u" @@ "V" :> "v" @@ "W" :> "w" @@ "X" :> "x" @@ "Y" :> "y" @@ "Z" :> "z"

\* str.lower(), character by character
Lower(txt) == [i \in 1..Len(txt) |-> IF txt[i] \in DOMAIN LowerOf THEN LowerOf[txt[i]] ELSE txt[i]]

\* specialist_indicators, in the order the dictionary is written
SpecialistIndicators ==
    <<[specialist |-> "doctor", indicators |->
        <<<<"U+533B", "U+751F">>, <<"U+517D", "U+533B">>, <<"h", "e", "a", "l", "t", "h">>, <<"m", "e", "d", "i", "c", "a", "l">>, <<"d", "o", "c", "t", "o", "r">>>>],
      [specialist |-> "nutritionist", indicators |->
        <<<<"U+8425", "U+517B", "U+5E08">>, <<"U+8425", "U+517B">>, <<"n", "u", "t", "r", "i", "t", "i", "o", "n">>, <<"d", "i", "e", "t">>, <<"f", "o", "o", "d">>>>],
      [specialist |-> "trainer", indicators |->
        <<<<"U+8BAD", "U+72AC", "U+5E08">>, <<"U+8BAD", "U+7EC3", "U+5E08">>, <<"U+8BAD", "U+7EC3">>, <<"t", "r", "a", "i", "n", "e", "r">>, <<"t", "r", "a", "i", "n", "i", "n", "g">>, <<"b", "e", "h", "a", "v", "i", "o", "r">>>>],
      [specialist |-> "faq", indicators |->
        <<<<"F", "A", "Q">>, <<"U+5E38", "U+89C1", "U+95EE", "U+9898">>, <<"f", "a", "q">>, <<"h", "e", "l", "p">>>>],
      [specialist |-> "avatar", indicators |->
        <<<<"U+5934", "U+50CF">>, <<"a", "v", "a", "t", "a", "r">>, <<"i", "m", "a", "g", "e">>, <<"g", "e", "n", "e", "r", "a", "t", "e">>>>]>>

IndicatorHit(summary_lower, e) ==
    \E i \in 1..Len(SpecialistIndicators[e].indicators) :
        Contains(summary_lower, Lower(SpecialistIndicators[e].indicators[i]))

\* PetHealthWorkflowExecutor._extract_current_specialist_from_summary;
\* "None" stands for the None result
extract_current_specialist_from_summary(conversation_summary) ==
    LET summary_lower == Lower(conversation_summary)
        hits == {e \in 1..Len(SpecialistIndicators) : IndicatorHit(summary_lower, e)}
    IN  IF conversation_summary = <<>> \/ hits = {}
        THEN "None"
        ELSE SpecialistIndicators[CHOOSE e \in hits : \A h \in hits : e <= h].specialist

(* -------------------------------------------------------------- language *)
\* LanguageDetector.SUPPORTED_LANGUAGES, LanguageManager.supported_languages
SupportedLanguages ==
    {"en", "zh-cn", "zh-tw", "ja", "ko", "es", "fr", "de", "it", "pt", "ru", "ar", "hi", "th", "vi"}
DefaultLanguage == "en"

\* the code point of every character outside ASCII that occurs in the texts
CodePoint ==
    "U+3000" :> 12288 @@ "U+3042" :> 12354 @@ "U+3044" :> 12356 @@ "U+4DFF" :> 19967 @@
    "U+4E00" :> 19968 @@ "U+4E0D" :> 19981 @@ "U+4E3A" :> 20026 @@ "U+4E48" :> 20040 @@
    "U+4EC0" :> 20160 @@ "U+4EE5" :> 20197 @@ "U+4F1A" :> 20250 @@ "U+4F60" :> 20320 @@
    "U+5019" :> 20505 @@ "U+50CF" :> 20687 @@ "U+517B" :> 20859 @@ "U+517D" :> 20861 @@
    "U+52A9" :> 21161 @@ "U+533B" :> 21307 @@ "U+53EF" :> 21487 @@ "U+54AA" :> 21674 @@
    "U+54EA" :> 21738 @@ "U+559C" :> 21916 @@ "U+5934" :> 22836 @@ "U+597D" :> 22909 @@
    "U+5BA0" :> 23456 @@ "U+5E08" :> 24072 @@ "U+5E2E" :> 24110 @@ "U+5E38" :> 24120 @@
    "U+5E94" :> 24212 @@ "U+600E" :> 24590 @@ "U+60F3" :> 24819 @@ "U+65F6" :> 26102 @@
    "U+662F" :> 26159 @@ "U+6709" :> 26377 @@ "U+6B22" :> 27426 @@ "U+6CA1" :> 27809 @@
    "U+7231" :> 29233 @@ "U+7269" :> 29289 @@ "U+72AC" :> 29356 @@ "U+72D7" :> 29399 @@
    "U+732B" :> 29483 @@ "U+751F" :> 29983 @@ "U+7528" :> 29992 @@ "U+77E5" :> 30693 @@
    "U+7EC3" :> 32451 @@ "U+8425" :> 33829 @@ "U+8981" :> 35201 @@ "U+89C1" :> 35265 @@
    "U+8BAD" :> 35757 @@ "U+8BC6" :> 35782 @@ "U+8BE5" :> 35813 @@ "U+8BF7" :> 35831 @@
    "U+8C22" :> 35874 @@ "U+901A" :> 36890 @@ "U+91CC" :> 37324 @@ "U+95EE" :> 38382 @@
    "U+9700" :> 38656 @@ "U+9898" :> 39064 @@ "U+9FFF" :> 40959 @@ "U+A000" :> 40960 @@
    "U+AC00" :> 44032

\* ord(ch) for the characters of the texts; an ASCII character is below 128
Ord(ch) == IF ch \in DOMAIN CodePoint THEN CodePoint[ch] ELSE 0

\* re.search(r'[\u4e00-\u9fff]', text)
has_chinese_characters(text) ==
    \E i \in 1..Len(text) : Ord(text[i]) >= 19968 /\ Ord(text[i]) <= 40959

\* what langdetect's detect(clean_text) can hand back: a language code, or
\* the LangDetectException it raises on a text without features
ClassifierOutcomes == {"en", "ja", "nl", "LangDetectException"}

\* LanguageDetector.detect_language; cls is the classifier's answer for the text
detect_language(text, cls) ==
    LET clean_text == Strip(text)
        detected_lang == IF cls \in {"zh", "zh-cn"} THEN "zh-cn" ELSE cls
    IN  IF text = <<>> \/ clean_text = <<>> THEN DefaultLanguage
        ELSE IF Len(clean_text) < 3 THEN DefaultLanguage
        ELSE IF has_chinese_characters(clean_text) THEN "zh-cn"
        ELSE IF cls = "LangDetectException" THEN DefaultLanguage
        ELSE IF detected_lang = "en" /\ has_chinese_characters(clean_text) THEN "zh-cn"
        ELSE IF detected_lang \in SupportedLanguages THEN detected_lang
        ELSE DefaultLanguage

\* LanguageManager.extract_language_from_conversation ("None" is None)
extract_language_from_conversation(conversation_summary, cls) ==
    IF conversation_summary = <<>> THEN "None"
    ELSE IF Len(Strip(conversation_summary)) < 10 THEN "None"
    ELSE detect_language(conversation_summary, cls)

\* characters that are not \w for Python's re
NonWordChars ==
    {" ", "\n", "\t", "\"", "'", "{", "}", "[", "]", "(", ")", ":", ",", ".", "?", "!", "-", "U+3000"}
IsWordChar(ch) == ch \notin NonWordChars

\* re.search(r'\b(word)\b', message, re.IGNORECASE)
WordMatch(message, word) ==
    LET m == Lower(message)
    IN  \E i \in 0..(Len(m) - Len(word)) :
            /\ \A j \in 1..Len(word) : m[i + j] = word[j]
            /\ i = 0 \/ ~IsWordChar(m[i])
            /\ i + Len(word) = Len(m) \/ ~IsWordChar(m[i + Len(word) + 1])

\* english_patterns of _is_clear_language_switch
EnglishPatterns ==
    {<<"p", "l", "e", "a", "s", "e">>,
     <<"t", "h", "a", "n", "k", " ", "y", "o", "u">>,
     <<"h", "e", "l", "l", "o">>,
     <<"h", "i">>,
     <<"h", "o", "w">>,
     <<"w", "h", "a", "t">>,
     <<"w", "h", "e", "r", "e">>,
     <<"w", "h", "e", "n">>,
     <<"w", "h", "y">>,
     <<"c", "a", "n", " ", "y", "o", "u">>,
     <<"c", "o", "u", "l", "d", " ", "y", "o", "u">>,
     <<"d", "o", "g">>,
     <<"c", "a", "t">>,
     <<"p", "e", "t">>,
     <<"h", "e", "l", "p">>,
     <<"n", "e", "e", "d">>,
     <<"w", "a", "n", "t">>,
     <<"l", "i", "k", "e">>,
     <<"l", "o", "v", "e">>,
     <<"i", "s">>,
     <<"a", "r", "e">>,
     <<"w", "a", "s">>,
     <<"w", "e", "r", "e">>,
     <<"h", "a", "v", "e">>,
     <<"h", "a", "s">>,
     <<"h", "a", "d">>,
     <<"w", "i", "l", "l">>,
     <<"w", "o", "u", "l", "d">>,
     <<"s", "h", "o", "u", "l", "d">>,
     <<"c", "o", "u", "l", "d">>}

\* chinese_patterns of _is_clear_language_switch: three character classes
ChinesePatterns ==
    {"U+8BF7", "U+8C22", "U+4F60", "U+597D", "U+600E", "U+4E48", "U+4EC0", "U+54EA", "U+91CC", "U+65F6", "U+5019", "U+4E3A"}
    \cup {"U+72D7", "U+732B", "U+54AA", "U+5BA0", "U+7269", "U+5E2E", "U+52A9", "U+9700", "U+8981", "U+60F3", "U+559C", "U+6B22", "U+7231"}
    \cup {"U+662F", "U+4E0D", "U+6709", "U+6CA1", "U+4F1A", "U+5E94", "U+8BE5", "U+53EF", "U+4EE5"}

\* mutant: a language without a pattern list never counts as a switch
is_clear_language_switch_patternsOnly(message, detected_lang) ==
    IF detected_lang = "en" THEN \E w \in EnglishPatterns : WordMatch(message, w)
    ELSE IF detected_lang = "zh-cn" THEN \E i \in 1..Len(message) : message[i] \in ChinesePatterns
    ELSE FALSE

\* LanguageManager._is_clear_language_switch
is_clear_language_switch(message, detected_lang) ==
    IF detected_lang = "en" THEN \E w \in EnglishPatterns : WordMatch(message, w)
    ELSE IF detected_lang = "zh-cn" THEN \E i \in 1..Len(message) : message[i] \in ChinesePatterns
    ELSE Len(Strip(message)) > 15

\* mutant: the explicit language is used only when the conversation has no
\* history language
determine_response_language_historyFirst(current_message, conversation_summary, explicit_language, cls_message, cls_summary) ==
    LET current_lang == detect_language(current_message, cls_message)
        history_lang == extract_language_from_conversation(conversation_summary, cls_summary)
    IN  IF history_lang # "None"
        THEN IF /\ current_lang # history_lang
                /\ Len(Strip(current_message)) > 20
                /\ is_clear_language_switch(current_message, current_lang)
             THEN current_lang
             ELSE history_lang
        ELSE IF explicit_language \notin {"None", ""} /\ explicit_language \in SupportedLanguages
        THEN explicit_language
        ELSE current_lang

\* LanguageManager.determine_response_language; explicit_language "None" is
\* None, cls_message and cls_summary are the classifier's answers for the two
\* texts
determine_response_language(current_message, conversation_summary, explicit_language, cls_message, cls_summary) ==
    LET current_lang == detect_language(current_message, cls_message)
        history_lang == extract_language_from_conversation(conversation_summary, cls_summary)
    IN  IF explicit_language \notin {"None", ""} /\ explicit_language \in SupportedLanguages
        THEN explicit_language
        ELSE IF history_lang # "None"
        THEN IF /\ current_lang # history_lang
                /\ Len(Strip(current_message)) > 20
                /\ is_clear_language_switch(current_message, current_lang)
             THEN current_lang
             ELSE history_lang
        ELSE current_lang

(* ------------------------------------------------------ user input texts *)
\* repr of the name field of the profile: None, or the name in quotes
PetNameText(pp) ==
    IF pp = "named" THEN <<"'", "U+54AA", "U+54AA", "'">> ELSE <<"N", "o", "n", "e">>

\* str(pet_profile.model_dump()) of the profile built from request.pet_profile:
\* the empty profile ("valid") or a profile with a name ("named"); str({})
\* when the agent is given no profile ("none")
PetProfileText(pp) ==
    IF pp = "none" THEN <<"{", "}">> ELSE
    <<"{", "'", "i", "d", "'", ":", " ", "N", "o", "n", "e", ",", " ", "'", "n", "a", "m", "e",
      "'", ":", " ">>
    \o PetNameText(pp) \o
    <<",", " ", "'", "b", "r", "e", "e", "d", "'", ":", " ", "N", "o", "n", "e", ",", " ", "'",
      "a", "g", "e", "'", ":", " ", "N", "o", "n", "e", ",", " ", "'", "w", "e", "i", "g", "h",
      "t", "'", ":", " ", "N", "o", "n", "e", ",", " ", "'", "g", "e", "n", "d", "e", "r", "'",
      ":", " ", "N", "o", "n", "e", ",", " ", "'", "n", "e", "u", "t", "e", "r", "e", "d", "'",
      ":", " ", "N", "o", "n", "e", ",", " ", "'", "h", "e", "a", "l", "t", "h", "_", "c", "o",
      "n", "d", "i", "t", "i", "o", "n", "s", "'", ":", " ", "N", "o", "n", "e", ",", " ", "'",
      "a", "l", "l", "e", "r", "g", "i", "e", "s", "'", ":", " ", "N", "o", "n", "e", "}">>

\* str(window_stats.dict()) when the request carries window statistics,
\* str({}) when it carries none
WindowStatsText(ws) ==
    IF ws = "valid"
    THEN <<"{", "'", "t", "i", "m", "e", "s", "t", "a", "m", "p", "'", ":", " ", "d", "a", "t", "e", "t",
           "i", "m", "e", ".", "d", "a", "t", "e", "t", "i", "m", "e", "(", "2", "0", "2", "4", ",", " ",
           "1", ",", " ", "1", ",", " ", "0", ",", " ", "0", ")", ",", " ", "'", "h", "e", "a", "r", "t",
           "_", "r", "a", "t", "e", "'", ":", " ", "1", "2", "0", ".", "0", ",", " ", "'", "h", "r", "v",
           "'", ":", " ", "N", "o", "n", "e", ",", " ", "'", "a", "c", "t", "i", "v", "i", "t", "y", "_",
           "l", "e", "v", "e", "l", "'", ":", " ", "N", "o", "n", "e", ",", " ", "'", "v", "a", "l", "e",
           "n", "c", "e", "'", ":", " ", "N", "o", "n", "e", ",", " ", "'", "a", "r", "o", "u", "s", "a",
           "l", "'", ":", " ", "N", "o", "n", "e", ",", " ", "'", "t", "e", "m", "p", "e", "r", "a", "t",
           "u", "r", "e", "'", ":", " ", "N", "o", "n", "e", ",", " ", "'", "s", "t", "e", "p", "s", "'",
           ":", " ", "N", "o", "n", "e", "}">>
    ELSE <<"{", "}">>

\* str(get_style_catalog()), cut after its first entry
StyleCatalogText ==
    <<"{", "'", "c", "a", "r", "t", "o", "o", "n", "_", "n", "e", "o", "'", ":", " ", "{", "'", "n",
      "a", "m", "e", "'", ":", " ", "'", "C", "y", "b", "e", "r", " ", "C", "a", "r", "t", "o", "o",
      "n", "'", ",", " ", "'", "d", "e", "s", "c", "r", "i", "p", "t", "i", "o", "n", "'", ":", " ",
      "'", "M", "o", "d", "e", "r", "n", " ", "c", "a", "r", "t", "o", "o", "n", " ", "s", "t", "y",
      "l", "e", ",", " ", "b", "r", "i", "g", "h", "t", " ", "c", "o", "l", "o", "r", "s", ",", " ",
      "c", "l", "e", "a", "n", " ", "l", "i", "n", "e", "s", "'", "}", "}">>

\* the user_input f-string of RouterAgent.process
RouterInput(summary, msg, pp) ==
    <<"\n", "{", "\n", " ", " ", "\"", "c", "o", "n", "v", "e", "r", "s", "a", "t", "i", "o", "n",
      "_", "s", "u", "m", "m", "a", "r", "y", "\"", ":", " ", "\"">>
    \o summary
    \o <<"\"", ",", "\n", " ", " ", "\"", "l", "a", "s", "t", "_", "u", "s", "e", "r", "_", "m", "s",
         "g", "\"", ":", " ", "\"">>
    \o msg
    \o <<"\"", ",", "\n", " ", " ", "\"", "p", "e", "t", "_", "p", "r", "o", "f", "i", "l", "e", "\"",
         ":", " ">>
    \o PetProfileText(pp) \o <<"\n", "}">>

\* format_doctor_user_input; the factory builds the request with an empty summary
DoctorInput(msg, ws, pp) ==
    <<"{", "\n", " ", " ", "\"", "c", "o", "n", "v", "e", "r", "s", "a", "t", "i", "o", "n", "_",
      "s", "u", "m", "m", "a", "r", "y", "\"", ":", " ", "\"", "\"", ",", "\n", " ", " ", "\"", "l",
      "a", "s", "t", "_", "u", "s", "e", "r", "_", "m", "s", "g", "\"", ":", " ", "\"">>
    \o msg
    \o <<"\"", ",", "\n", " ", " ", "\"", "w", "i", "n", "d", "o", "w", "_", "s", "t", "a", "t", "s",
         "\"", ":", " ">>
    \o WindowStatsText(ws)
    \o <<",", " ", "\n", " ", " ", "\"", "p", "e", "t", "_", "p", "r", "o", "f", "i", "l", "e", "\"",
         ":", " ">>
    \o PetProfileText(pp) \o <<"\n", "}">>

\* format_nutritionist_user_input
NutritionistInput(msg, pp) ==
    <<"{", "\n", " ", " ", "\"", "c", "o", "n", "v", "e", "r", "s", "a", "t", "i", "o", "n", "_",
      "s", "u", "m", "m", "a", "r", "y", "\"", ":", " ", "\"", "\"", ",", "\n", " ", " ", "\"", "l",
      "a", "s", "t", "_", "u", "s", "e", "r", "_", "m", "s", "g", "\"", ":", " ", "\"">>
    \o msg
    \o <<"\"", ",", "\n", " ", " ", "\"", "p", "e", "t", "_", "p", "r", "o", "f", "i", "l", "e", "\"",
         ":", " ">>
    \o PetProfileText(pp)
    \o <<",", "\n", " ", " ", "\"", "d", "i", "e", "t", "_", "h", "i", "s", "t", "o", "r", "y", "\"",
         ":", " ", "{", "}", "\n", "}">>

\* format_trainer_user_input
TrainerInput(msg, pp) ==
    <<"{", "\n", " ", " ", "\"", "c", "o", "n", "v", "e", "r", "s", "a", "t", "i", "o", "n", "_",
      "s", "u", "m", "m", "a", "r", "y", "\"", ":", " ", "\"", "\"", ",", "\n", " ", " ", "\"", "l",
      "a", "s", "t", "_", "u", "s", "e", "r", "_", "m", "s", "g", "\"", ":", " ", "\"">>
    \o msg
    \o <<"\"", ",", "\n", " ", " ", "\"", "p", "e", "t", "_", "p", "r", "o", "f", "i", "l", "e", "\"",
         ":", " ">>
    \o PetProfileText(pp)
    \o <<",", "\n", " ", " ", "\"", "r", "e", "c", "e", "n", "t", "_", "a", "c", "t", "i", "v", "i",
         "t", "y", "\"", ":", " ", "{", "}", "\n", "}">>

\* format_simple_faq_user_input, given the stripped message
FaqInput(msg) ==
    <<"{", "\n", " ", " ", "\"", "l", "a", "s", "t", "_", "u", "s", "e", "r", "_", "m", "s", "g",
      "\"", ":", " ", "\"">>
    \o Strip(msg) \o <<"\"", "\n", "}">>

\* format_avatar_user_input
AvatarInput(msg) ==
    <<"{", "\n", " ", " ", "\"", "l", "a", "s", "t", "_", "u", "s", "e", "r", "_", "m", "s", "g",
      "\"", ":", " ", "\"">>
    \o msg
    \o <<"\"", ",", "\n", " ", " ", "\"", "p", "e", "t", "_", "p", "h", "o", "t", "o", "_", "u", "p",
         "l", "o", "a", "d", "e", "d", "\"", ":", " ", "t", "r", "u", "e", ",", "\n", " ", " ", "\"",
         "s", "t", "y", "l", "e", "_", "c", "a", "t", "a", "l", "o", "g", "\"", ":", " ">>
    \o StyleCatalogText \o <<"\n", "}">>

\* the user_input of the first-pass call of a specialist
SpecialistInput(agent, msg, ws, pp) ==
    CASE agent = "doctor" -> DoctorInput(msg, ws, pp)
      [] agent = "nutritionist" -> NutritionistInput(msg, pp)
      [] agent = "trainer" -> TrainerInput(msg, pp)
      [] agent = "faq" -> FaqInput(msg)
      [] OTHER -> AvatarInput(msg)

(* ------------------------------------------------- inputs and gateway set *)
\* request.message
Messages == {<<>>, <<"s", "i", "c", "k">>, <<" ", "s", "y", "n", "c">>}

\* user_message = None, the default of execute and stream_execute
NoMessage == <<"None">>

\* request.conversation_summary
Summaries ==
    {<<>>,
     <<"d", "o", "c", "t", "o", "r">>,
     <<"d", "i", "e", "t", " ", "d", "o", "c", "t", "o", "r">>,
     <<"d", "o", "c", "t", "o", "r", " ", "d", "i", "e", "t">>,
     <<"F", "o", "o", "d">>}

\* request.pet_profile: an empty mapping, a mapping with a name in CJK
\* characters, a mapping PetProfile rejects
PetProfiles == {"valid", "named", "invalid"}

\* request.language ("None" when the caller gives none)
Languages == {"None", "ja"}

RouterObj(next, confidence) ==
    [next |-> JStr(next), reason |-> JStr("r"), confidence |-> JNum(confidence), response_preview |-> JStr("p")]

RouterOutputs ==
    {Fail, Garbage, Scalar, Array}
    \cup {Object(RouterObj(tgt, 90)) : tgt \in ValidTargets}
    \cup {Object(With(RouterObj("doctor", 80), "transfer_message", JStr("to the vet"))),
          Object(RouterObj("vet", 90)),
          Object(Without(With(RouterObj("x", 70), "target", JStr("trainer")), "next")),
          Object(Without(With(RouterObj("x", 60), "target", JStr("groomer")), "next")),
          Object(Without(RouterObj("doctor", 90), "reason")),
          Object(Without(RouterObj("doctor", 90), "confidence")),
          Object(RouterObj("trainer", 150)),
          Object(With(RouterObj("nutritionist", 0), "confidence", JStr("high"))),
          Object(With(RouterObj("doctor", 90), "reason", JNum(100)))}

Handoff == JDict(<<Pair("target", "trainer"), Pair("reason", "behavior")>>)
Meals == JDict(<<Pair("breakfast", "60g kibble"), Pair("dinner", "60g kibble")>>)

DoctorObj(risk) ==
    [assessment |-> JStr("a"), risk_level |-> JStr(risk), watchouts |-> JList(<<"w">>),
     next_actions |-> JList(<<"n">>), when_to_see_vet |-> JStr("v")]

\* n copies of x
Items(x, n) == [i \in 1..n |-> x]

DoctorOutputs ==
    {Object(With(DoctorObj("low"), "watchouts", JList(Items("w", n)))) : n \in 0..MaxItems}
    \cup
    {Fail, Garbage, Scalar, Array,
     Object(DoctorObj("low")),
     Object(DoctorObj("critical")),
     Object(With(DoctorObj("low"), "risk_level", JNum(300))),
     Object(With(DoctorObj("high"), "safety_note", JStr("note"))),
     Object(With(DoctorObj("low"), "safety_note", JStr(""))),
     Object(With(DoctorObj("medium"), "handoff", Handoff)),
     Object(With(DoctorObj("low"), "watchouts", Meals)),
     Object(With(DoctorObj("low"), "next_actions", Meals)),
     Object(With(DoctorObj("low"), "watchouts", JListOf(<<NumItem("3")>>))),
     Object(With(DoctorObj("low"), "next_actions",
                 JListOf(<<DictItem(<<Pair("action", "rest")>>), NumItem("3")>>))),
     Object(Without(DoctorObj("low"), "assessment"))}

NutritionistObj ==
    [summary |-> JStr("s"), meal_plan |-> JList(<<"m">>), avoid_list |-> JList(<<"x">>), tips |-> JList(<<"t">>)]

NutritionistOutputs ==
    {Fail, Garbage, Array,
     Object(NutritionistObj),
     Object(With(NutritionistObj, "safety_note", JStr("note"))),
     Object(With(NutritionistObj, "safety_note", JStr(""))),
     Object(With(NutritionistObj, "meal_plan", Meals)),
     Object(With(NutritionistObj, "avoid_list", Meals)),
     Object(With(NutritionistObj, "tips", Meals)),
     Object(With(NutritionistObj, "tips",
                 JListOf(<<DictItem(<<Pair("title", "water")>> \o <<Pair("content", "fresh")>>)>>))),
     Object(Without(NutritionistObj, "tips"))}

TrainerObj ==
    [plan |-> JList(<<"p">>), exercise |-> JList(<<"e">>), env_setup |-> JList(<<"s">>), warnings |-> JList(<<"w">>)]

TrainerOutputs ==
    {Object(With(TrainerObj, "plan", JList(Items("p", n)))) : n \in 0..MaxItems}
    \cup
    {Fail, Garbage, Scalar, Array,
     Object(TrainerObj),
     Object(With(TrainerObj, "plan", Meals)),
     Object(With(TrainerObj, "env_setup", Meals)),
     Object(With(TrainerObj, "plan",
                 JListOf(<<DictItem(<<Pair("step", "1"), Pair("description", "sit")>>)>>))),
     Object(With(TrainerObj, "env_setup",
                 JListOf(<<DictItem(<<Pair("item", "mat")>>), DictItem(<<Pair("x", "1"), Pair("y", "2")>>)>>))),
     Object(With(TrainerObj, "warnings", JStr("careful"))),
     Object(With(TrainerObj, "handoff", JNum(100))),
     Object(Without(TrainerObj, "exercise"))}

FaqObj(source) == [answer |-> JStr("a"), source |-> JStr(source)]

FaqOutputs ==
    {Fail, Garbage, Array,
     Object(FaqObj("general")),
     Fenced(Object(FaqObj("general")), <<"j", "s", "o", "n">>),
     Fenced(Object(FaqObj("general")), <<>>),
     Fenced(Object(FaqObj("general")), <<"J", "S", "O", "N">>),
     Object(FaqObj("web")),
     Object(With(FaqObj("generic"), "safety_note", JStr(""))),
     Object(Without(FaqObj("generic"), "answer"))}

AvatarObj(quality) ==
    [style |-> JStr("cartoon"), quality |-> JStr(quality), notes |-> JStr("n"), ok_to_generate |-> JBool(TRUE)]

AvatarOutputs ==
    {Fail, Garbage, Scalar,
     Object(AvatarObj("hd")),
     Object(AvatarObj("ultra")),
     Object(With(AvatarObj("standard"), "ok_to_generate", JStr("maybe"))),
     Object(Without(AvatarObj("hd"), "notes"))}

\* what the gateway may answer to a call made for a specialist
GatewayOutputs(agent) ==
    CASE agent = "doctor" -> DoctorOutputs
      [] agent = "nutritionist" -> NutritionistOutputs
      [] agent = "trainer" -> TrainerOutputs
      [] agent = "faq" -> FaqOutputs
      [] OTHER -> AvatarOutputs

(* ------------------------------------------------------ agent dispatch *)
\* _agent_factory
AgentFactory == {"doctor", "nutritionist", "trainer", "faq", "avatar"}

\* agent.process(request), first pass
AgentFirst(agent, g) ==
    CASE agent = "doctor" -> DoctorFirst(g)
      [] agent = "nutritionist" -> NutritionistFirst(g)
      [] agent = "trainer" -> TrainerFirst(g)
      [] agent = "faq" -> FaqFirst(g)
      [] OTHER -> AvatarFirst(g)

\* mutant: only the doctor retries with a fallback prompt
HasFallbackPrompt_doctorOnly(agent) == agent = "doctor"

\* the agents whose except branch calls _generate_fallback_response
HasFallbackPrompt(agent) == agent \in {"doctor", "nutritionist", "trainer"}

AgentFallback(agent, g) ==
    CASE agent = "doctor" -> DoctorFallback(g)
      [] agent = "nutritionist" -> NutritionistFallback(g)
      [] OTHER -> TrainerFallback(g)

\* the record the except branch of faq and avatar returns
AgentStatic(agent) == IF agent = "faq" THEN FaqStatic ELSE AvatarStatic

\* temperature of the first-pass call, in tenths
FirstTemperature(agent) == IF agent = "faq" THEN 3 ELSE 5
RouterTemperature == 3
FallbackTemperature == 3

(* ----------------------------------------------------------------- state *)
VARIABLES
    user_message,          \* request.message
    conversation_summary,  \* request.conversation_summary
    pet_profile,           \* request.pet_profile: "valid" ({}), "named" or "invalid" for PetProfile
    window_stats,          \* request.window_stats: "none", "valid" or "invalid" for WindowStats
    language,              \* request.language
    pc,                    \* where the stream generator stands
    router_response,       \* stream_execute's router_response
    agent_type,            \* agent_type of _process_specialist_agent
    events,                \* what stream_execute has yielded
    out,                   \* what stream_chat_response has yielded
    calls,                 \* the model-gateway calls made, with their outcomes
    response_language,     \* the response language last determined
    consumer,              \* who iterates stream_execute: "chat" or "execute"
    returned,              \* what execute, router_check or detect_anomaly returned
    classifier,            \* the classifier's answers used by the language functions
    turns,                 \* the frames of the turns that run concurrently
    vitals,                \* the VitalSignsAnalysis handed to detect_anomaly
    active_monitors,       \* RealTimeMonitor.active_monitors: device_id -> task
    tasks,                 \* the monitor tasks created, with their state
    requests               \* start/stop requests accepted and not yet run

vars == <<user_message, conversation_summary, pet_profile, window_stats, language,
          pc, router_response, agent_type, events, out, calls, response_language,
          consumer, returned, classifier, turns, vitals, active_monitors, tasks, requests>>

inputs == <<user_message, conversation_summary, pet_profile, window_stats, language>>

\* the state of the hardware monitor
monitor == <<vitals, active_monitors, tasks, requests>>

\* what a chat turn's steps leave alone
others == <<consumer, returned, classifier, turns, monitor>>

NoReturn == [kind |-> "none"]
NoClassifier == [message |-> "None", summary |-> "None"]
NoVitals == [heart_rate |-> 0, temperature |-> 0, activity_level |-> 0]
NoMonitors == [d \in {} |-> 0]

\* nothing has been returned, no concurrent turns, no monitor
Idle ==
    /\ returned = NoReturn
    /\ classifier = NoClassifier
    /\ turns = <<>>
    /\ vitals = NoVitals
    /\ active_monitors = NoMonitors
    /\ tasks = <<>>
    /\ requests = <<>>

NoResponse == [next |-> "None"]

Init ==
    /\ user_message \in Messages
    /\ conversation_summary \in Summaries
    /\ pet_profile \in PetProfiles
    /\ window_stats \in {"none", "valid", "invalid"}
    /\ language \in Languages
    /\ pc = "start"
    /\ router_response = NoResponse
    /\ agent_type = "None"
    /\ events = <<>>
    /\ out = <<>>
    /\ calls = <<>>
    /\ response_language = "None"
    /\ consumer = "chat"
    /\ Idle

DoneMarker == [type |-> "[DONE]", agent |-> "", content |-> <<>>]

\* mutant: the transfer notice is sent again with the specialist state
ChatItems_transferAgain(state) ==
    CASE state.type = "router" ->
            <<[type |-> "router", agent |-> "butler", content |-> state.router_response]>>
      [] state.type = "transfer" ->
            <<[type |-> "transfer", agent |-> "system", content |-> state.transfer]>>
      [] state.type = "specialist" ->
            <<[type |-> "specialist", agent |-> state.agent, content |-> state.specialist_response],
              [type |-> "transfer", agent |-> "system", content |-> [message |-> "", target_agent |-> state.agent]]>>
      [] OTHER ->
            <<[type |-> "error", agent |-> "system", content |-> [error |-> state.error]]>>

\* the items stream_chat_response yields for one state of stream_execute
ChatItems(state) ==
    CASE state.type = "router" ->
            <<[type |-> "router", agent |-> "butler", content |-> state.router_response]>>
      [] state.type = "transfer" ->
            <<[type |-> "transfer", agent |-> "system", content |-> state.transfer]>>
      [] state.type = "specialist" ->
            <<[type |-> "specialist", agent |-> state.agent, content |-> state.specialist_response]>>
      [] OTHER ->
            <<[type |-> "error", agent |-> "system", content |-> [error |-> state.error]]>>

\* stream_execute yields state; stream_chat_response forwards it, execute
\* only collects it
Yield(state) ==
    /\ events' = Append(events, state)
    /\ out' = IF consumer = "chat" THEN out \o ChatItems(state) ELSE out

\* one _call_llm: generate_json_response determines the response language
\* from (user_input, conversation_summary, language) and asks the gateway
Call(stage, agent, temperature, lang, resp_lang, g) ==
    /\ calls' = Append(calls, [stage |-> stage, agent |-> agent, temperature |-> temperature,
                               language |-> lang, response_language |-> resp_lang, g |-> g])
    /\ response_language' = resp_lang

\* the response language of the router call
RouterLanguage(cm, cs) ==
    determine_response_language(RouterInput(conversation_summary, user_message, pet_profile),
                                conversation_summary, language, cm, cs)

\* the response language of a specialist's first-pass call: process is
\* called without a language and _call_llm without a summary
FirstLanguage(agent, cm) ==
    determine_response_language(SpecialistInput(agent, user_message, window_stats, pet_profile),
                                <<>>, "None", cm, cm)

\* the response language of a fallback call: the user input is empty
FallbackLanguage(cm) == determine_response_language(<<>>, <<>>, "None", cm, cm)

(* --------------------------------------------------------------- actions *)
\* stream_chat_response up to the first await: PetProfile(**request.pet_profile);
\* a validation error goes to the except branch, which yields one error item
ChatStart ==
    /\ pc = "start"
    /\ IF pet_profile # "invalid"
       THEN /\ pc' = "routing"
            /\ out' = out
       ELSE /\ pc' = "closed"
            /\ out' = Append(out, [type |-> "error", agent |-> "system",
                                   content |-> [error |-> "validation error for PetProfile"]])
    /\ UNCHANGED <<inputs, others, router_response, agent_type, events, calls, response_language>>

\* mutant: RouterAgent.process without its except branch; a router failure
\* reaches stream_execute's except, which yields an error state and returns
Route_raises ==
    /\ pc = "routing"
    /\ \E g \in RouterOutputs, cm, cs \in ClassifierOutcomes :
        /\ Call("router", "router", RouterTemperature, language, RouterLanguage(cm, cs), g)
        /\ IF RouterFailed(g)
           THEN /\ router_response' = router_response
                /\ Yield([type |-> "error", error |-> "LLM call failed"])
                /\ pc' = "finish"
           ELSE /\ router_response' = RouterAgent_process(g)
                /\ Yield([type |-> "router", router_response |-> RouterAgent_process(g)])
                /\ pc' = "routed"
    /\ UNCHANGED <<inputs, others, agent_type>>

\* mutant: a router failure is also reported as an error state before the
\* router state
Route_errorEvent ==
    /\ pc = "routing"
    /\ \E g \in RouterOutputs, cm, cs \in ClassifierOutcomes :
        /\ router_response' = RouterAgent_process(g)
        /\ Call("router", "router", RouterTemperature, language, RouterLanguage(cm, cs), g)
        /\ IF RouterFailed(g)
           THEN /\ events' = events \o <<[type |-> "router", router_response |-> RouterAgent_process(g)],
                                         [type |-> "error", error |-> "LLM call failed"]>>
                /\ out' = out \o ChatItems([type |-> "router", router_response |-> RouterAgent_process(g)])
                              \o ChatItems([type |-> "error", error |-> "LLM call failed"])
           ELSE Yield([type |-> "router", router_response |-> RouterAgent_process(g)])
    /\ pc' = "routed"
    /\ UNCHANGED <<inputs, others, agent_type>>

\* stream_execute step 1: RouterRequest (request.message is a str, so it
\* validates), await router_agent.process, yield the router state
Route ==
    /\ pc = "routing"
    /\ user_message # NoMessage
    /\ \E g \in RouterOutputs, cm, cs \in ClassifierOutcomes :
        /\ router_response' = RouterAgent_process(g)
        /\ Call("router", "router", RouterTemperature, language, RouterLanguage(cm, cs), g)
        /\ Yield([type |-> "router", router_response |-> RouterAgent_process(g)])
    /\ pc' = "routed"
    /\ UNCHANGED <<inputs, others, agent_type>>

UpperName ==
    [doctor |-> "DOCTOR", nutritionist |-> "NUTRITIONIST", trainer |-> "TRAINER", faq |-> "FAQ", avatar |-> "AVATAR"]

\* getattr(router_response, "transfer_message", None) or f"Transferring you to ..."
TransferMessage(rr) ==
    IF Truthy(rr.transfer_message)
    THEN rr.transfer_message.s
    ELSE "Transferring you to " \o UpperName[rr.next] \o " specialist..."

\* current_specialist != router_response.next
ShouldShowTransfer(summary, rr) == extract_current_specialist_from_summary(summary) # rr.next

\* stream_execute from the router yield to the pacing delay: the router-as-FAQ
\* branch, the early return, the transfer notice
TransferCheck ==
    /\ pc = "routed"
    /\ IF router_response.next = "router"
       THEN /\ agent_type' = "faq"
            /\ pc' = "specialist"
            /\ UNCHANGED <<events, out>>
       ELSE IF router_response.next \notin {"doctor", "nutritionist", "trainer", "faq", "avatar"}
       THEN /\ agent_type' = agent_type
            /\ pc' = "finish"
            /\ UNCHANGED <<events, out>>
       ELSE /\ agent_type' = router_response.next
            /\ pc' = "specialist"
            /\ IF ShouldShowTransfer(conversation_summary, router_response)
               THEN Yield([type |-> "transfer",
                           transfer |-> [message |-> TransferMessage(router_response),
                                         target_agent |-> router_response.next]])
               ELSE UNCHANGED <<events, out>>
    /\ UNCHANGED <<inputs, others, router_response, calls, response_language>>

\* the factory call of _process_specialist_agent raises: DoctorRequest gets
\* sensor_data as window_stats and WindowStats rejects it
RequestRejected(agent, ws) == agent = "doctor" /\ ws = "invalid"

\* mutant: the specialist state is always labelled with the router's target
SpecialistEvent_routerTarget(agent, rr, resp) ==
    [type |-> "specialist", agent |-> rr.next, specialist_response |-> resp]

SpecialistEvent(agent, rr, resp) ==
    [type |-> "specialist",
     agent |-> IF rr.next = "router" THEN "faq" ELSE rr.next,
     specialist_response |-> resp]

\* _process_specialist_agent returns None (unknown agent type, or the request
\* could not be built): stream_execute yields nothing more
SpecialistNone ==
    /\ pc = "specialist"
    /\ agent_type \notin AgentFactory \/ RequestRejected(agent_type, window_stats)
    /\ pc' = "finish"
    /\ UNCHANGED <<inputs, others, router_response, agent_type, events, out, calls, response_language>>

\* SimpleFAQAgent.process answers from the built-in table, without a model call
FaqBuiltin ==
    /\ pc = "specialist"
    /\ agent_type = "faq"
    /\ BuiltinMatch(user_message) # 0
    /\ Yield(SpecialistEvent(agent_type, router_response, BuiltinAnswer(BuiltinMatch(user_message))))
    /\ pc' = "finish"
    /\ UNCHANGED <<inputs, others, router_response, agent_type, calls, response_language>>

\* agent.process(request): the first-pass model call.  The call is made
\* without a language argument.  On failure doctor, nutritionist and trainer
\* go on to their fallback prompt; faq and avatar return their default record.
SpecialistFirstPass ==
    /\ pc = "specialist"
    /\ agent_type \in AgentFactory
    /\ ~RequestRejected(agent_type, window_stats)
    /\ ~(agent_type = "faq" /\ BuiltinMatch(user_message) # 0)
    /\ \E g \in GatewayOutputs(agent_type), cm \in ClassifierOutcomes :
        /\ Call("first", agent_type, FirstTemperature(agent_type), "None", FirstLanguage(agent_type, cm), g)
        /\ IF AgentFirst(agent_type, g).ok
           THEN /\ Yield(SpecialistEvent(agent_type, router_response, AgentFirst(agent_type, g).resp))
                /\ pc' = "finish"
           ELSE IF HasFallbackPrompt(agent_type)
           THEN /\ UNCHANGED <<events, out>>
                /\ pc' = "fallback"
           ELSE /\ Yield(SpecialistEvent(agent_type, router_response, AgentStatic(agent_type)))
                /\ pc' = "finish"
    /\ UNCHANGED <<inputs, others, router_response, agent_type>>

\* mutant: a fallback call that fails is made again
SpecialistFallback_retry ==
    /\ pc = "fallback"
    /\ \E g \in GatewayOutputs(agent_type), cm \in ClassifierOutcomes :
        /\ Call("fallback", agent_type, FallbackTemperature, "None", FallbackLanguage(cm), g)
        /\ IF g.kind = "fail" /\ Len(calls) < 3
           THEN /\ UNCHANGED <<events, out>>
                /\ pc' = "fallback"
           ELSE /\ Yield(SpecialistEvent(agent_type, router_response, AgentFallback(agent_type, g)))
                /\ pc' = "finish"
    /\ UNCHANGED <<inputs, others, router_response, agent_type>>

\* _generate_fallback_response: one call with the fallback prompt, then the
\* static record if that fails too
SpecialistFallback ==
    /\ pc = "fallback"
    /\ \E g \in GatewayOutputs(agent_type), cm \in ClassifierOutcomes :
        /\ Call("fallback", agent_type, FallbackTemperature, "None", FallbackLanguage(cm), g)
        /\ Yield(SpecialistEvent(agent_type, router_response, AgentFallback(agent_type, g)))
    /\ pc' = "finish"
    /\ UNCHANGED <<inputs, others, router_response, agent_type>>

\* the async for loop of stream_chat_response is exhausted: the end marker
ChatFinish ==
    /\ pc = "finish"
    /\ out' = Append(out, DoneMarker)
    /\ pc' = "closed"
    /\ UNCHANGED <<inputs, others, router_response, agent_type, events, calls, response_language>>

Next ==
    \/ ChatStart
    \/ Route
    \/ TransferCheck
    \/ SpecialistNone
    \/ FaqBuiltin
    \/ SpecialistFirstPass
    \/ SpecialistFallback
    \/ ChatFinish

Spec == Init /\ [][Next]_vars

(* ------------------------------------------- language functions on their own *)
\* current_message / text arguments
LangMessages ==
    {<<>>,
     <<" ", " ">>,
     <<"h", "i">>,
     <<"s", "i", "c", "k">>,
     <<"U+4F60", "U+597D">>,
     <<" ", "U+72D7", " ">>,
     <<"U+72D7", "U+72D7", "U+597D">>,
     <<"m", "y", " ", "U+72D7">>,
     <<"U+4E00", "U+9FFF", "x">>,
     <<"U+4DFF", "U+A000", "U+3042">>,
     <<"U+3042", "U+3044", "U+3042", "U+3044">>,
     <<"p", "l", "e", "a", "s", "e", " ", "h", "e", "l", "p", " ", "m", "y", " ", "d", "o", "g", " ",
       "i", "s", " ", "s", "i", "c", "k">>,
     <<"1", "2", "3", "4", "5", "6", "7", "8", "9", "0", "1", "2", "3", "4", "5", "6", "7", "8", "9",
       "0", "1", "2">>,
     <<" ", " ", " ", "p", "l", "e", "a", "s", "e", " ", "h", "e", "l", "p", " ", "m", "y", " ", "d",
       "o", "g">>,
     [i \in 1..21 |-> "U+4E00"],
     [i \in 1..21 |-> IF i = 21 THEN "U+72D7" ELSE "U+4E00"]}

\* conversation_summary arguments
LangSummaries ==
    {<<>>,
     <<"d", "o", "c", "t", "o", "r">>,
     <<"d", "i", "e", "t", " ", "d", "o", "c", "t", "o", "r">>,
     <<"U+72D7", "U+72D7", "U+597D", "U+72D7", "U+72D7", "U+597D", "U+72D7", "U+72D7", "U+597D", "U+72D7">>}

\* explicit_language arguments
LangLanguages == {"None", "", "ja", "zh-cn", "en", "JA", "xx"}

LangInit ==
    /\ user_message \in LangMessages
    /\ conversation_summary \in LangSummaries
    /\ language \in LangLanguages
    /\ pet_profile = "valid"
    /\ window_stats = "none"
    /\ pc = "language"
    /\ router_response = NoResponse
    /\ agent_type = "None"
    /\ events = <<>>
    /\ out = <<>>
    /\ calls = <<>>
    /\ response_language = "None"
    /\ consumer = "chat"
    /\ Idle

\* language_manager.determine_response_language(user_message,
\* conversation_summary, language)
DetermineLanguage ==
    /\ pc = "language"
    /\ \E cm, cs \in ClassifierOutcomes :
        /\ response_language' =
              determine_response_language(user_message, conversation_summary, language, cm, cs)
        /\ classifier' = [message |-> cm, summary |-> cs]
    /\ pc' = "determined"
    /\ UNCHANGED <<inputs, consumer, returned, turns, monitor, router_response, agent_type, events, out, calls>>

\* language_detector.detect_language(user_message)
DetectLanguage ==
    /\ pc = "language"
    /\ \E cls \in ClassifierOutcomes :
        /\ response_language' = detect_language(user_message, cls)
        /\ classifier' = [message |-> cls, summary |-> "None"]
    /\ pc' = "detected"
    /\ UNCHANGED <<inputs, consumer, returned, turns, monitor, router_response, agent_type, events, out, calls>>

LangNext ==
    \/ DetermineLanguage
    \/ DetectLanguage

LangSpec == LangInit /\ [][LangNext]_vars

(* ---------------------------------------------- execute: the last answer *)
\* PetHealthWorkflowExecutor.execute runs stream_execute to its end, collects
\* the states and returns one of them.  Its callers hand it the arguments
\* themselves (no request model): user_message may be None, pet_profile is a
\* PetProfile or None, sensor_data is what the doctor's WindowStats is built
\* from.
ExecMessages == {NoMessage, <<"s", "i", "c", "k">>, <<" ", "s", "y", "n", "c">>}
ExecSummaries == {<<>>, <<"d", "o", "c", "t", "o", "r">>}

ExecInit ==
    /\ user_message \in ExecMessages
    /\ conversation_summary \in ExecSummaries
    /\ pet_profile \in {"none", "named"}
    /\ window_stats \in {"none", "valid", "invalid"}
    /\ language \in Languages
    /\ pc = "routing"
    /\ router_response = NoResponse
    /\ agent_type = "None"
    /\ events = <<>>
    /\ out = <<>>
    /\ calls = <<>>
    /\ response_language = "None"
    /\ consumer = "execute"
    /\ Idle

\* stream_execute step 1 with user_message None: RouterRequest rejects
\* last_user_msg, the except branch yields the error state
RouteRejected ==
    /\ pc = "routing"
    /\ user_message = NoMessage
    /\ Yield([type |-> "error", error |-> "validation error for RouterRequest"])
    /\ pc' = "finish"
    /\ UNCHANGED <<inputs, others, router_response, agent_type, calls, response_language>>

\* the states that carry the key "specialist_response" or "router_response"
Answers(responses) == {i \in DOMAIN responses : responses[i].type \in {"specialist", "router"}}

AnswerOf(response) ==
    IF response.type = "specialist"
    THEN [kind |-> "specialist", value |-> response.specialist_response]
    ELSE [kind |-> "router", value |-> response.router_response]

\* mutant: the states are searched from the first to the last
LastAnswer_forward(responses) ==
    IF Answers(responses) = {}
    THEN [kind |-> "error", error |-> "Workflow execution failed"]
    ELSE AnswerOf(responses[CHOOSE i \in Answers(responses) : \A j \in Answers(responses) : i <= j])

\* for response in reversed(responses): the first that carries an answer
LastAnswer(responses) ==
    IF Answers(responses) = {}
    THEN [kind |-> "error", error |-> "Workflow execution failed"]
    ELSE AnswerOf(responses[CHOOSE i \in Answers(responses) : \A j \in Answers(responses) : i >= j])

\* the async for loop of execute is exhausted: execute returns
ExecuteReturn ==
    /\ pc = "finish"
    /\ returned' = LastAnswer(events)
    /\ pc' = "returned"
    /\ UNCHANGED <<inputs, consumer, classifier, turns, monitor, router_response, agent_type,
                   events, out, calls, response_language>>

ExecNext ==
    \/ Route
    \/ RouteRejected
    \/ TransferCheck
    \/ SpecialistNone
    \/ FaqBuiltin
    \/ SpecialistFirstPass
    \/ SpecialistFallback
    \/ ExecuteReturn

ExecSpec == ExecInit /\ [][ExecNext]_vars

(* ---------------------------------------------------------- router check *)
\* POST /chat/router-check: one call of the router agent, answered with the
\* four fields of RouterCheckResponse.  The request has the fields of a chat
\* request; the handler runs to its return in one step.

\* PetProfile(**request.pet_profile) if request.pet_profile else None
CheckProfile(pp) == IF pp = "valid" THEN "none" ELSE pp

\* the router answers of the chat turn and one that asks for the pet status
CheckOutputs ==
    RouterOutputs \cup {Object(With(RouterObj("doctor", 90), "needs_pet_status", JBool(TRUE)))}

RouterCheckResponse(rr) ==
    [kind |-> "router-check", needs_pet_status |-> rr.needs_pet_status, reason |-> rr.reason,
     next |-> rr.next, confidence |-> rr.confidence]

\* the record of the except branch of router_check
CheckFallback ==
    [kind |-> "router-check", needs_pet_status |-> TRUE, reason |-> "Error in router check: ...",
     next |-> "router", confidence |-> 50]

CheckInit ==
    /\ user_message \in Messages
    /\ conversation_summary \in Summaries
    /\ pet_profile \in PetProfiles
    /\ window_stats = "none"
    /\ language \in Languages
    /\ pc = "check"
    /\ router_response = NoResponse
    /\ agent_type = "None"
    /\ events = <<>>
    /\ out = <<>>
    /\ calls = <<>>
    /\ response_language = "None"
    /\ consumer = "router-check"
    /\ Idle

\* router_check: the profile is built (a validation error goes to the except
\* branch), the router agent is asked once, its answer is copied
RouterCheck ==
    /\ pc = "check"
    /\ IF pet_profile = "invalid"
       THEN /\ returned' = CheckFallback
            /\ UNCHANGED <<router_response, calls, response_language>>
       ELSE \E g \in CheckOutputs, cm, cs \in ClassifierOutcomes :
                /\ router_response' = RouterAgent_process(g)
                /\ Call("router", "router", RouterTemperature, language,
                        determine_response_language(
                            RouterInput(conversation_summary, user_message, CheckProfile(pet_profile)),
                            conversation_summary, language, cm, cs),
                        g)
                /\ returned' = RouterCheckResponse(RouterAgent_process(g))
    /\ pc' = "checked"
    /\ UNCHANGED <<inputs, consumer, classifier, turns, monitor, agent_type, events, out>>

CheckNext == RouterCheck

CheckSpec == CheckInit /\ [][CheckNext]_vars

(* ------------------------------------------------ two concurrent turns *)
\* Two calls of stream_execute on the one workflow_executor, run by the event
\* loop: a turn runs from one await to the next without interruption, and
\* another turn may run while it waits for the gateway or sleeps.  Everything
\* a turn keeps between two awaits is in its frame (the locals of
\* stream_execute and of the agent it created).
Turns == {1, 2}

\* the requests of the concurrent turns
ConcRequests ==
    {[user_message |-> <<"s", "i", "c", "k">>, conversation_summary |-> <<>>,
      pet_profile |-> "valid", window_stats |-> "none", language |-> "None"],
     [user_message |-> <<" ", "s", "y", "n", "c">>, conversation_summary |-> <<"d", "o", "c", "t", "o", "r">>,
      pet_profile |-> "named", window_stats |-> "invalid", language |-> "ja"]}

\* the classifier's answers and the gateway's answers to the concurrent turns
ConcClassifier == {"en", "ja"}
ConcRouterOutputs ==
    {Fail, Object(RouterObj("doctor", 90)), Object(RouterObj("trainer", 90)), Object(RouterObj("faq", 90))}
ConcGatewayOutputs(agent) ==
    CASE agent = "doctor" -> {Fail, Object(DoctorObj("low"))}
      [] agent = "nutritionist" -> {Fail, Object(NutritionistObj)}
      [] agent = "trainer" -> {Fail, Object(TrainerObj)}
      [] agent = "faq" -> {Fail, Object(FaqObj("general"))}
      [] OTHER -> {Fail, Object(AvatarObj("hd"))}

\* the frame of a turn that has been called and has not run yet
Frame(req) ==
    [user_message |-> req.user_message,
     conversation_summary |-> req.conversation_summary,
     pet_profile |-> req.pet_profile,
     window_stats |-> req.window_stats,
     language |-> req.language,
     pc |-> "routing",
     router_response |-> NoResponse,
     agent_type |-> "None",
     events |-> <<>>,
     calls |-> <<>>,
     responses |-> <<>>]

\* yield state
Emit(f, state) == [f EXCEPT !.events = Append(@, state)]

\* _call_llm up to its await: the response language is determined and the
\* gateway is asked
Issue(f, stage, agent, temperature, lang, resp_lang) ==
    [f EXCEPT !.calls = Append(@, [stage |-> stage, agent |-> agent, temperature |-> temperature,
                                   language |-> lang, response_language |-> resp_lang])]

\* the awaited gateway call hands back g
Receive(f, g) == [f EXCEPT !.responses = Append(@, g)]

\* stream_execute up to the await of the router call
IssueRouter(f, cm, cs) ==
    [Issue(f, "router", "router", RouterTemperature, f.language,
           determine_response_language(RouterInput(f.conversation_summary, f.user_message, f.pet_profile),
                                       f.conversation_summary, f.language, cm, cs))
        EXCEPT !.pc = "await_router"]

\* _process_specialist_agent(agent_type = agent) up to its first await: no
\* agent or no request (None), a built-in FAQ answer, or the first-pass call;
\* rr is the router_response the turn sees
StartSpecialist(f, rr, agent, cm) ==
    LET f1 == [f EXCEPT !.agent_type = agent]
    IN  IF agent \notin AgentFactory \/ RequestRejected(agent, f.window_stats)
        THEN [f1 EXCEPT !.pc = "done"]
        ELSE IF agent = "faq" /\ BuiltinMatch(f.user_message) # 0
        THEN [Emit(f1, SpecialistEvent(agent, rr, BuiltinAnswer(BuiltinMatch(f.user_message))))
                EXCEPT !.pc = "done"]
        ELSE [Issue(f1, "first", agent, FirstTemperature(agent), "None",
                    determine_response_language(SpecialistInput(agent, f.user_message, f.window_stats, f.pet_profile),
                                                <<>>, "None", cm, cm))
                EXCEPT !.pc = "await_first"]

\* after the router state is yielded: either the FAQ agent at once (target
\* router), or the end, or the transfer notice and the pacing delay
AfterRouter(f, rr, cm) ==
    IF rr.next = "router" THEN StartSpecialist(f, rr, "faq", cm)
    ELSE IF rr.next \notin {"doctor", "nutritionist", "trainer", "faq", "avatar"}
    THEN [f EXCEPT !.pc = "done"]
    ELSE [(IF ShouldShowTransfer(f.conversation_summary, rr)
           THEN Emit(f, [type |-> "transfer",
                         transfer |-> [message |-> TransferMessage(rr), target_agent |-> rr.next]])
           ELSE f)
            EXCEPT !.pc = "sleeping"]

\* the router call returns rr: it is stored and the router state is yielded
RouterReturns(f, g, rr, cm) ==
    AfterRouter(Emit([Receive(f, g) EXCEPT !.router_response = rr],
                     [type |-> "router", router_response |-> rr]),
                rr, cm)

\* the router call returns
ResumeRouter(f, g, cm) == RouterReturns(f, g, RouterAgent_process(g), cm)

\* asyncio.sleep(0.5) is over: the specialist named by router_response.next
Wake(f, rr, cm) == StartSpecialist(f, rr, rr.next, cm)

\* the first-pass call has returned r: its answer is the specialist state,
\* or the fallback call is made, or the static answer is the specialist state
FirstReturns(f, rr, r, cm) ==
    IF r.ok
    THEN [Emit(f, SpecialistEvent(f.agent_type, rr, r.resp)) EXCEPT !.pc = "done"]
    ELSE IF HasFallbackPrompt(f.agent_type)
    THEN [Issue(f, "fallback", f.agent_type, FallbackTemperature, "None",
                determine_response_language(<<>>, <<>>, "None", cm, cm))
            EXCEPT !.pc = "await_fallback"]
    ELSE [Emit(f, SpecialistEvent(f.agent_type, rr, AgentStatic(f.agent_type))) EXCEPT !.pc = "done"]

\* the first-pass call returns
ResumeFirst(f, rr, g, cm) == FirstReturns(Receive(f, g), rr, AgentFirst(f.agent_type, g), cm)

\* the fallback call returns
ResumeFallback(f, rr, g) ==
    [Emit(Receive(f, g), SpecialistEvent(f.agent_type, rr, AgentFallback(f.agent_type, g)))
        EXCEPT !.pc = "done"]

\* the variables of the single chat turn
chat == <<inputs, pc, router_response, agent_type, events, out, calls, response_language>>

ConcInit ==
    /\ turns \in [Turns -> {Frame(req) : req \in ConcRequests}]
    /\ user_message = <<>>
    /\ conversation_summary = <<>>
    /\ pet_profile = "valid"
    /\ window_stats = "none"
    /\ language = "None"
    /\ pc = "concurrent"
    /\ router_response = NoResponse
    /\ agent_type = "None"
    /\ events = <<>>
    /\ out = <<>>
    /\ calls = <<>>
    /\ response_language = "None"
    /\ consumer = "execute"
    /\ returned = NoReturn
    /\ classifier = NoClassifier
    /\ vitals = NoVitals
    /\ active_monitors = NoMonitors
    /\ tasks = <<>>
    /\ requests = <<>>

\* mutant: router_response is kept where every turn can reach it, and a turn
\* reads the decision of the other turn once that turn has routed
RouterResponseOf_shared(t) ==
    IF \E u \in Turns \ {t} : turns[u].router_response # NoResponse
    THEN turns[CHOOSE u \in Turns \ {t} : turns[u].router_response # NoResponse].router_response
    ELSE turns[t].router_response

\* router_response is a local of the turn's stream_execute
RouterResponseOf(t) == turns[t].router_response

TurnIssueRouter(t) ==
    /\ turns[t].pc = "routing"
    /\ \E cm, cs \in ConcClassifier : turns' = [turns EXCEPT ![t] = IssueRouter(turns[t], cm, cs)]
    /\ UNCHANGED <<chat, consumer, returned, classifier, monitor>>

TurnResumeRouter(t) ==
    /\ turns[t].pc = "await_router"
    /\ \E g \in ConcRouterOutputs, cm \in ConcClassifier :
        turns' = [turns EXCEPT ![t] = ResumeRouter(turns[t], g, cm)]
    /\ UNCHANGED <<chat, consumer, returned, classifier, monitor>>

TurnWake(t) ==
    /\ turns[t].pc = "sleeping"
    /\ \E cm \in ConcClassifier : turns' = [turns EXCEPT ![t] = Wake(turns[t], RouterResponseOf(t), cm)]
    /\ UNCHANGED <<chat, consumer, returned, classifier, monitor>>

TurnResumeFirst(t) ==
    /\ turns[t].pc = "await_first"
    /\ \E g \in ConcGatewayOutputs(turns[t].agent_type), cm \in ConcClassifier :
        turns' = [turns EXCEPT ![t] = ResumeFirst(turns[t], RouterResponseOf(t), g, cm)]
    /\ UNCHANGED <<chat, consumer, returned, classifier, monitor>>

TurnResumeFallback(t) ==
    /\ turns[t].pc = "await_fallback"
    /\ \E g \in ConcGatewayOutputs(turns[t].agent_type) :
        turns' = [turns EXCEPT ![t] = ResumeFallback(turns[t], RouterResponseOf(t), g)]
    /\ UNCHANGED <<chat, consumer, returned, classifier, monitor>>

ConcNext ==
    \E t \in Turns :
        \/ TurnIssueRouter(t)
        \/ TurnResumeRouter(t)
        \/ TurnWake(t)
        \/ TurnResumeFirst(t)
        \/ TurnResumeFallback(t)

ConcSpec == ConcInit /\ [][ConcNext]_vars

\* the stream is over
Closed == pc = "closed"

(* ------------------------------------------------------ anomaly detection *)
\* AnomalyDetector.detect_anomaly on the vitals of one sensor reading.  Heart
\* rate in beats per minute, temperature and activity level in hundredths
\* (the parsers divide an unsigned integer by 100); NoReading is None.
NoReading == -1

HeartRates == {NoReading, 0, 59, 60, 120, 180, 181}
Temperatures == {NoReading, 0, 3699, 3700, 3950, 3951}
ActivityLevels == {NoReading, 0, 9, 10}

\* self.thresholds
Thresholds ==
    [heart_rate |-> [min |-> 60, max |-> 180],
     temperature |-> [min |-> 3700, max |-> 3950],
     activity_level |-> [min |-> 10, max |-> 100]]

\* the truth value of an Optional[float]: None and 0 are false
TruthyReading(x) == x # NoReading /\ x # 0

Anomaly(type, severity) == [type |-> type, severity |-> severity]

HeartRateAnomalies(hr) ==
    IF ~TruthyReading(hr) THEN <<>>
    ELSE IF hr < Thresholds.heart_rate.min THEN <<Anomaly("low_heart_rate", "high")>>
    ELSE IF hr > Thresholds.heart_rate.max THEN <<Anomaly("high_heart_rate", "high")>>
    ELSE <<>>

TemperatureAnomalies(temp) ==
    IF ~TruthyReading(temp) THEN <<>>
    ELSE IF temp < Thresholds.temperature.min THEN <<Anomaly("low_temperature", "medium")>>
    ELSE IF temp > Thresholds.temperature.max THEN <<Anomaly("high_temperature", "high")>>
    ELSE <<>>

ActivityAnomalies(act) ==
    IF act # NoReading /\ act < Thresholds.activity_level.min
    THEN <<Anomaly("low_activity", "medium")>>
    ELSE <<>>

\* AnomalyDetector._calculate_risk_level
calculate_risk_level(anomalies) ==
    IF anomalies = <<>> THEN "low"
    ELSE IF \E i \in DOMAIN anomalies : anomalies[i].severity = "high" THEN "high"
    ELSE IF Len(anomalies) > 1 THEN "medium"
    ELSE "low"

detect_anomaly(v) ==
    LET anomalies == HeartRateAnomalies(v.heart_rate) \o TemperatureAnomalies(v.temperature)
                     \o ActivityAnomalies(v.activity_level)
    IN  [kind |-> "anomaly",
         anomaly_detected |-> Len(anomalies) > 0,
         anomalies |-> anomalies,
         risk_level |-> calculate_risk_level(anomalies)]

AnomalyInit ==
    /\ user_message = <<>>
    /\ conversation_summary = <<>>
    /\ pet_profile = "none"
    /\ window_stats = "none"
    /\ language = "None"
    /\ pc = "anomaly"
    /\ router_response = NoResponse
    /\ agent_type = "None"
    /\ events = <<>>
    /\ out = <<>>
    /\ calls = <<>>
    /\ response_language = "None"
    /\ consumer = "hardware"
    /\ Idle

\* one call of detect_anomaly on the vitals built from a reading
DetectAnomaly ==
    /\ pc = "anomaly"
    /\ \E hr \in HeartRates, temp \in Temperatures, act \in ActivityLevels :
        /\ vitals' = [heart_rate |-> hr, temperature |-> temp, activity_level |-> act]
        /\ returned' = detect_anomaly(vitals')
    /\ UNCHANGED <<chat, consumer, classifier, turns, active_monitors, tasks, requests>>

AnomalyNext == DetectAnomaly

AnomalySpec == AnomalyInit /\ [][AnomalyNext]_vars

(* ---------------------------------------------------- real-time monitoring *)
\* RealTimeMonitor: active_monitors maps a device to its monitor task.  tasks
\* are the tasks asyncio.create_task has made, each with its device and its
\* state: "pending" (made, not yet run), "sleeping" (in the loop, at its
\* await), "cancelling" (cancel() called, CancelledError not yet delivered),
\* "ended".  requests are the start requests received: the handler queues
\* start_monitoring as a background task, which runs after the response.
Devices == {"d1", "d2"}
MaxRequests == 3

Live(task) == task.state \in {"pending", "sleeping"}

MonitorInit ==
    /\ user_message = <<>>
    /\ conversation_summary = <<>>
    /\ pet_profile = "none"
    /\ window_stats = "none"
    /\ language = "None"
    /\ pc = "monitor"
    /\ router_response = NoResponse
    /\ agent_type = "None"
    /\ events = <<>>
    /\ out = <<>>
    /\ calls = <<>>
    /\ response_language = "None"
    /\ consumer = "hardware"
    /\ Idle

\* POST /hardware/start-monitoring: the background task is queued
StartRequest(d) ==
    /\ pc = "monitor"
    /\ Len(requests) < MaxRequests
    /\ requests' = Append(requests, [device |-> d, ran |-> FALSE])
    /\ UNCHANGED <<chat, consumer, returned, classifier, turns, vitals, active_monitors, tasks>>

\* mutant: start_monitoring without the membership test
start_monitoring_unguarded(d) ==
    /\ tasks' = Append(tasks, [device |-> d, state |-> "pending"])
    /\ active_monitors' = [x \in DOMAIN active_monitors \cup {d} |->
                              IF x = d THEN Len(tasks) + 1 ELSE active_monitors[x]]

\* RealTimeMonitor.start_monitoring: it has no await, so it runs as one step
start_monitoring(d) ==
    IF d \in DOMAIN active_monitors
    THEN UNCHANGED <<tasks, active_monitors>>
    ELSE /\ tasks' = Append(tasks, [device |-> d, state |-> "pending"])
         /\ active_monitors' = [x \in DOMAIN active_monitors \cup {d} |->
                                   IF x = d THEN Len(tasks) + 1 ELSE active_monitors[x]]

\* a queued background task runs start_monitoring
RunStart(i) ==
    /\ pc = "monitor"
    /\ i \in DOMAIN requests
    /\ ~requests[i].ran
    /\ start_monitoring(requests[i].device)
    /\ requests' = [requests EXCEPT ![i].ran = TRUE]
    /\ UNCHANGED <<chat, consumer, returned, classifier, turns, vitals>>

\* Task.cancel(): a task that has ended is left as it is
Cancel(task) == IF Live(task) THEN [task EXCEPT !.state = "cancelling"] ELSE task

\* POST /hardware/stop-monitoring awaits RealTimeMonitor.stop_monitoring,
\* which has no await of its own
StopMonitoring(d) ==
    /\ pc = "monitor"
    /\ IF d \in DOMAIN active_monitors
       THEN /\ tasks' = [tasks EXCEPT ![active_monitors[d]] = Cancel(@)]
            /\ active_monitors' = [x \in DOMAIN active_monitors \ {d} |-> active_monitors[x]]
       ELSE UNCHANGED <<tasks, active_monitors>>
    /\ UNCHANGED <<chat, consumer, returned, classifier, turns, vitals, requests>>

\* the event loop runs a task of _monitor_device: a new task enters the loop
\* and sleeps, a task being cancelled gets CancelledError and ends
MonitorStep(i) ==
    /\ pc = "monitor"
    /\ i \in DOMAIN tasks
    /\ tasks[i].state \in {"pending", "cancelling"}
    /\ tasks' = [tasks EXCEPT ![i].state = IF @ = "pending" THEN "sleeping" ELSE "ended"]
    /\ UNCHANGED <<chat, consumer, returned, classifier, turns, vitals, active_monitors, requests>>

MonitorNext ==
    \/ \E d \in Devices : StartRequest(d)
    \/ \E i \in 1..MaxRequests : RunStart(i)
    \/ \E d \in Devices : StopMonitoring(d)
    \/ \E i \in 1..MaxRequests : MonitorStep(i)

MonitorSpec == MonitorInit /\ [][MonitorNext]_vars

TypeOK ==
    /\ pc \in {"start", "routing", "routed", "specialist", "fallback", "finish", "closed",
              "language", "determined", "detected", "concurrent", "check", "checked",
              "anomaly", "monitor", "execute", "returned"}
    /\ Len(calls) <= 3
    /\ Len(events) <= 3

(* ---------------------------------------------------------------- claims *)
HasEvent(type) == \E i \in DOMAIN events : events[i].type = type
HasItem(type) == \E i \in DOMAIN out : out[i].type = type
CallsOf(stage) == {i \in DOMAIN calls : calls[i].stage = stage}

\* the gateway outcome was a gateway failure, unparseable text, or an object
\* that lacks one of the required fields (next may come as its alias target)
StageFailed(g, required) ==
    \/ g.kind \in {"fail", "garbage"}
    \/ /\ g.kind = "object"
       /\ \E f \in required : f \notin DOMAIN g.obj /\ ~(f = "next" /\ "target" \in DOMAIN g.obj)

\* stream_execute has been entered and is past its first yield
Routed == pc \in {"routed", "specialist", "fallback", "finish"} \/ (pc = "closed" /\ pet_profile # "invalid")

\* C1: for every turn given to stream_execute, whatever the gateway answers,
\* the stream has a router event and that event is the first of the stream
\* (of stream_execute's states and of the chat items alike).
C1_RouterEventFirst ==
    /\ events # <<>> => events[1].type = "router"
    /\ Routed => /\ Len(events) >= 1 /\ events[1].type = "router"
                 /\ Len(out) >= 1 /\ out[1].type = "router"

C1_Witness ==
    /\ pc = "closed"
    /\ Len(calls) >= 1 /\ calls[1].stage = "router" /\ calls[1].g = Garbage
    /\ events[1].type = "router"
    /\ Len(events) > 1

\* C2 (as claimed): every turn that emitted a router event has emitted a
\* specialist event with content by the time the stream ends.
C2_SpecialistAlways ==
    (Closed /\ HasEvent("router")) =>
        \E i \in DOMAIN events :
            /\ events[i].type = "specialist"
            /\ DOMAIN events[i].specialist_response # {}

RankOf == [router |-> 1, transfer |-> 2, specialist |-> 3]
Ranked(items) == {i \in DOMAIN items : items[i].type \in DOMAIN RankOf}
InOrder(items) ==
    \A i, j \in Ranked(items) : i < j => RankOf[items[i].type] < RankOf[items[j].type]

\* C3: a turn's stream has at most one router, one transfer and one specialist
\* event, in that order (strictly increasing rank says both), in what
\* stream_execute yields and in what the chat stream sends.
C3_OneOfEachInOrder == InOrder(events) /\ InOrder(out)

C3_Witness ==
    /\ pc = "closed"
    /\ Len(events) = 3
    /\ events[1].type = "router" /\ events[2].type = "transfer" /\ events[3].type = "specialist"

\* C4 (as claimed): every chat stream that has ended has the end marker as
\* its last item.
C4_EndsWithDone == Closed => (out # <<>> /\ out[Len(out)] = DoneMarker)

\* C5: when the router stage fails, the decision is the safe default (target
\* router, confidence 0.1), the router event carries it, and the turn goes on
\* to the FAQ specialist: it ends with a specialist event of agent faq and
\* without an error event.
C5_RouterFailureIsDefault ==
    (Len(calls) >= 1 /\ StageFailed(calls[1].g, RouterRequired)) =>
        /\ router_response.next = "router" /\ router_response.confidence = 10
        /\ events[1].type = "router" /\ events[1].router_response = router_response
        /\ out[1].type = "router" /\ out[1].content = router_response
        /\ pc \in {"specialist", "finish", "closed"} => agent_type = "faq"
        /\ Closed => /\ Len(events) = 2
                     /\ events[2].type = "specialist" /\ events[2].agent = "faq"
                     /\ ~HasEvent("error") /\ ~HasItem("error")

C5_Witness ==
    /\ pc = "closed"
    /\ Len(calls) >= 1 /\ calls[1].g = Object(Without(RouterObj("doctor", 90), "reason"))
    /\ Len(events) = 2 /\ events[2].agent = "faq"

\* C6 (as claimed): when the router stage fails, the turn's stream has an
\* error event besides the router event.
C6_RouterFailureErrorEvent ==
    (Closed /\ Len(calls) >= 1 /\ StageFailed(calls[1].g, RouterRequired)) =>
        HasEvent("error") /\ HasItem("error")

\* C6 (amended): when the router stage fails, no error event is emitted; the
\* stream carries the router event with the safe default decision and the
\* failure is absorbed.
C6_RouterFailureNoErrorEvent ==
    (Len(calls) >= 1 /\ StageFailed(calls[1].g, RouterRequired)) =>
        /\ ~HasEvent("error") /\ ~HasItem("error")
        /\ events[1].type = "router"
        /\ events[1].router_response.next = "router"
        /\ events[1].router_response.confidence = 10

C6_Witness ==
    /\ pc = "closed"
    /\ Len(calls) >= 1 /\ calls[1].g = Fail
    /\ out[1].type = "router" /\ out[Len(out)] = DoneMarker

FirstCalls == CallsOf("first")
FallbackCalls == CallsOf("fallback")
FirstPassFailed ==
    \E i \in FirstCalls : StageFailed(calls[i].g, 
        CASE calls[i].agent = "doctor" -> DoctorRequired
          [] calls[i].agent = "nutritionist" -> NutritionistRequired
          [] calls[i].agent = "trainer" -> TrainerRequired
          [] calls[i].agent = "faq" -> FaqRequired
          [] OTHER -> AvatarRequired)

\* the static default record of each specialist
StaticOf(agent) ==
    CASE agent = "doctor" -> DoctorStatic
      [] agent = "nutritionist" -> NutritionistStatic
      [] agent = "trainer" -> TrainerStatic
      [] agent = "faq" -> FaqStatic
      [] OTHER -> AvatarStatic

\* gateway answers that are complete and well typed for their specialist
WellFormedAnswers ==
    {Object(DoctorObj(r)) : r \in RiskLevels} \cup {Object(NutritionistObj), Object(TrainerObj)}
    \cup {Object(With(DoctorObj("low"), "watchouts", JList(Items("w", n)))) : n \in 0..MaxItems}
    \cup {Object(With(TrainerObj, "plan", JList(Items("p", n)))) : n \in 0..MaxItems}
    \cup {Object(AvatarObj(q)) : q \in Qualities}

DoctorFields == {"assessment", "risk_level", "watchouts", "next_actions", "when_to_see_vet", "handoff", "safety_note"}

\* C8: when the first-pass call and the fallback call of a doctor dispatch
\* both fail, the doctor answer is complete, with risk_level medium and a
\* non-empty safety_note.
C8_DoctorTotalFailure ==
    (/\ Len(calls) = 3
     /\ calls[2].agent = "doctor" /\ calls[2].g.kind \in {"fail", "garbage"}
     /\ calls[3].agent = "doctor" /\ calls[3].g.kind \in {"fail", "garbage"}) =>
        /\ events[Len(events)].type = "specialist"
        /\ events[Len(events)].agent = "doctor"
        /\ DOMAIN events[Len(events)].specialist_response = DoctorFields
        /\ events[Len(events)].specialist_response.assessment # ""
        /\ events[Len(events)].specialist_response.risk_level = "medium"
        /\ events[Len(events)].specialist_response.watchouts # <<>>
        /\ events[Len(events)].specialist_response.next_actions # <<>>
        /\ events[Len(events)].specialist_response.when_to_see_vet # ""
        /\ events[Len(events)].specialist_response.safety_note # ""

C8_Witness ==
    /\ pc = "closed"
    /\ Len(calls) = 3 /\ calls[2].agent = "doctor" /\ calls[2].g = Fail /\ calls[3].g = Fail
    /\ events[Len(events)].type = "specialist"

\* C9 (as claimed): every doctor or nutritionist answer in a specialist event
\* has a non-empty safety_note, whichever pass produced it.
C9_SafetyNoteNeverEmpty ==
    \A i \in DOMAIN events :
        (events[i].type = "specialist" /\ events[i].agent \in {"doctor", "nutritionist"})
            => events[i].specialist_response.safety_note # ""

\* a first-pass answer that is complete and well typed but for the enumerated
\* field, whose value is outside the closed set
DoctorRiskOutOfSet(g) ==
    /\ g.kind = "object"
    /\ DoctorRequired \subseteq DOMAIN g.obj
    /\ ~(g.obj["risk_level"].t = "str" /\ g.obj["risk_level"].s \in {"low", "medium", "high"})
    /\ Object(With(g.obj, "risk_level", JStr("low"))) \in WellFormedAnswers

AvatarQualityOutOfSet(g) ==
    /\ g.kind = "object"
    /\ AvatarRequired \subseteq DOMAIN g.obj
    /\ ~(g.obj["quality"].t = "str" /\ g.obj["quality"].s \in {"standard", "hd"})
    /\ Object(With(g.obj, "quality", JStr("hd"))) \in WellFormedAnswers

\* C10: an out-of-set risk_level (doctor) or quality (avatar) in an otherwise
\* complete first-pass answer is coerced to medium / standard and the answer
\* is emitted as the specialist result of that first pass: no fallback call,
\* no error event; and every emitted doctor answer has a risk_level of the
\* closed set.
C10_EnumCoercion ==
    /\ \A i \in FirstCalls :
        /\ (calls[i].agent = "doctor" /\ DoctorRiskOutOfSet(calls[i].g)) =>
              /\ pc \in {"finish", "closed"} /\ FallbackCalls = {}
              /\ events[Len(events)].type = "specialist" /\ events[Len(events)].agent = "doctor"
              /\ events[Len(events)].specialist_response.risk_level = "medium"
              /\ events[Len(events)].specialist_response.assessment = calls[i].g.obj["assessment"].s
              /\ ~HasEvent("error") /\ ~HasItem("error")
        /\ (calls[i].agent = "avatar" /\ AvatarQualityOutOfSet(calls[i].g)) =>
              /\ pc \in {"finish", "closed"} /\ FallbackCalls = {}
              /\ events[Len(events)].type = "specialist" /\ events[Len(events)].agent = "avatar"
              /\ events[Len(events)].specialist_response.quality = "standard"
              /\ events[Len(events)].specialist_response.style = calls[i].g.obj["style"].s
              /\ ~HasEvent("error") /\ ~HasItem("error")
    /\ \A j \in DOMAIN events :
        (events[j].type = "specialist" /\ events[j].agent = "doctor")
            => events[j].specialist_response.risk_level \in {"low", "medium", "high"}

C10_Witness ==
    /\ pc = "closed"
    /\ Len(calls) = 2 /\ calls[2].agent = "doctor"
    /\ calls[2].g = Object(With(DoctorObj("low"), "risk_level", JNum(300)))
    /\ events[Len(events)].specialist_response.risk_level = "medium"

\* the target the model named: field next, or its alias target when next is absent
TargetOf(o) == IF Has(o, "next") THEN o["next"] ELSE o["target"]

\* a router answer that is complete and well typed but for its confidence,
\* which is missing, not a number, or outside [0, 1]
ConfidenceInvalid(g) ==
    /\ g.kind = "object"
    /\ ~RouterFailed(Object(With(g.obj, "confidence", JNum(90))))
    /\ \/ ~Has(g.obj, "confidence")
       \/ g.obj["confidence"].t # "num"
       \/ g.obj["confidence"].n < 0
       \/ g.obj["confidence"].n > 100

\* C11 (as claimed): a router answer whose confidence is missing, non-numeric
\* or outside [0, 1] yields a routing decision with confidence 0.5 and the
\* target the model named.
C11_ConfidenceDefault ==
    (Len(calls) >= 1 /\ ConfidenceInvalid(calls[1].g)) =>
        /\ router_response.confidence = 50
        /\ IsLiteral(TargetOf(calls[1].g.obj), ValidTargets)
              => router_response.next = TargetOf(calls[1].g.obj).s

\* a router answer that names a target outside the enumerated set
TargetOutOfSet(g) ==
    /\ g.kind = "object"
    /\ Has(g.obj, "next") \/ Has(g.obj, "target")
    /\ ~IsLiteral(TargetOf(g.obj), ValidTargets)

\* C12: a router answer whose target (next, or target when next is absent) is
\* outside the enumerated set yields the routing decision router, and every
\* router event of the stream carries a target of the set.
C12_TargetCoercion ==
    /\ (Len(calls) >= 1 /\ TargetOutOfSet(calls[1].g)) =>
          /\ router_response.next = "router"
          /\ events[1].type = "router" /\ events[1].router_response.next = "router"
    /\ \A i \in DOMAIN events :
          events[i].type = "router" => events[i].router_response.next \in ValidTargets
    /\ \A i \in DOMAIN out :
          out[i].type = "router" => out[i].content.next \in ValidTargets

C12_Witness ==
    /\ pc = "closed"
    /\ Len(calls) >= 1
    /\ calls[1].g = Object(Without(With(RouterObj("x", 60), "target", JStr("groomer")), "next"))
    /\ router_response.next = "router" /\ router_response.confidence = 60
    /\ Len(out) >= 1 /\ out[1].type = "router" /\ out[1].content.next = "router"

Max(S) == CHOOSE x \in S : \A y \in S : x >= y

\* where the last occurrence of sub in txt ends, 0 when there is none
LastEnd(txt, sub) ==
    Max({0} \cup {i + Len(sub) : i \in {k \in 0..(Len(txt) - Len(sub)) :
                                          \A j \in 1..Len(sub) : txt[k + j] = sub[j]}})

\* where the last mention of a specialist (any of its keywords) ends
LastMention(summary_lower, e) ==
    Max({LastEnd(summary_lower, Lower(SpecialistIndicators[e].indicators[i])) :
            i \in 1..Len(SpecialistIndicators[e].indicators)})

\* the specialist whose keyword is mentioned last in the summary, "None" when
\* no keyword occurs
MostRecentSpecialist(summary) ==
    LET summary_lower == Lower(summary)
        hits == {e \in 1..Len(SpecialistIndicators) : LastMention(summary_lower, e) > 0}
    IN  IF hits = {} THEN "None"
        ELSE SpecialistIndicators[CHOOSE e \in hits :
                \A h \in hits : LastMention(summary_lower, e) >= LastMention(summary_lower, h)].specialist

\* stream_execute is past its transfer check with a specialist target
Dispatched ==
    /\ pc \in {"specialist", "fallback", "finish", "closed"}
    /\ router_response.next \in AgentFactory

\* C14 (as claimed): with a specialist target, a transfer event is emitted
\* exactly when the specialist mentioned last in the summary differs from the
\* target or none is mentioned.
C14_TransferByMostRecent ==
    Dispatched =>
        (HasEvent("transfer") <=> MostRecentSpecialist(conversation_summary) # router_response.next)

\* C15 (as claimed): with the keyword doctor in the summary and the target
\* doctor, no transfer event is emitted and the stream ends with the doctor
\* specialist event.
C15_DoctorKeywordSuppresses ==
    (Dispatched /\ router_response.next = "doctor"
       /\ Contains(Lower(conversation_summary), <<"d", "o", "c", "t", "o", "r">>)) =>
        /\ ~HasEvent("transfer") /\ ~HasItem("transfer")
        /\ Closed => /\ events[Len(events)].type = "specialist"
                     /\ events[Len(events)].agent = "doctor"

\* C16: for every explicit language of the supported set,
\* determine_response_language returns that language, whatever the current
\* message and the conversation summary contain and whatever the classifier
\* says about them.
C16_ExplicitLanguageWins ==
    (pc = "determined" /\ language \in SupportedLanguages) => response_language = language

C16_Witness ==
    /\ pc = "determined"
    /\ language = "ja" /\ response_language = "ja"
    /\ has_chinese_characters(user_message) /\ Len(user_message) >= 3
    /\ Len(conversation_summary) >= 10

\* C18 (as claimed): for a text with at least one character in U+4E00..U+9FFF,
\* of any length, detect_language returns zh-cn whatever the classifier says.
C18_CjkIsChinese ==
    (pc = "detected" /\ has_chinese_characters(user_message)) => response_language = "zh-cn"

\* C17 (as claimed): when the caller gives an explicit language of the
\* supported set, every specialist call of the turn (first pass and fallback)
\* is made with that language as the response language, the language of the
\* turn's router call.
C17_SpecialistLanguageExplicit ==
    language \in SupportedLanguages =>
        \A i \in DOMAIN calls :
            calls[i].stage \in {"first", "fallback"} =>
                /\ calls[i].response_language = language
                /\ calls[i].response_language = calls[1].response_language

\* the "key: value" strings of a mapping, in the mapping's key order
KeyValueStrings(v) == [i \in 1..Len(v.l) |-> v.l[i].k \o ": " \o v.l[i].v]

\* a nutritionist answer that is complete and well typed but for its
\* meal_plan, which is a keyed mapping
MealPlanMapping(g) ==
    /\ g.kind = "object"
    /\ NutritionistRequired \subseteq DOMAIN g.obj
    /\ g.obj["meal_plan"].t = "dict"
    /\ NutritionistResponseValid(AsObject(With(g.obj, "meal_plan", JList(<<"m">>))))

\* C19: a meal_plan that the model returns as a keyed mapping becomes the list
\* of "key: value" strings in the mapping's key order, and the nutritionist's
\* first pass is accepted with that list: the specialist event carries it and
\* no fallback call is made.
C19_MealPlanMapping ==
    \A i \in FirstCalls :
        (calls[i].agent = "nutritionist" /\ MealPlanMapping(calls[i].g)) =>
            /\ generate_json_response(calls[i].g).obj["meal_plan"]
                  = JList(KeyValueStrings(calls[i].g.obj["meal_plan"]))
            /\ pc \in {"finish", "closed"} /\ FallbackCalls = {}
            /\ events[Len(events)].type = "specialist"
            /\ events[Len(events)].agent = "nutritionist"
            /\ events[Len(events)].specialist_response.meal_plan
                  = KeyValueStrings(calls[i].g.obj["meal_plan"])
            /\ events[Len(events)].specialist_response.summary = calls[i].g.obj["summary"].s

C19_Witness ==
    /\ pc = "closed"
    /\ Len(calls) = 2 /\ calls[2].agent = "nutritionist"
    /\ calls[2].g = Object(With(NutritionistObj, "meal_plan", Meals))
    /\ events[Len(events)].type = "specialist"
    /\ events[Len(events)].specialist_response.meal_plan
          = <<"breakfast: 60g kibble", "dinner: 60g kibble">>

\* the response model of the agent a call is made for
ResponseValid(agent, r) ==
    CASE agent = "router" -> RouterResponseValid(r)
      [] agent = "doctor" -> DoctorResponseValid(r)
      [] agent = "nutritionist" -> NutritionistResponseValid(r)
      [] agent = "trainer" -> TrainerResponseValid(r)
      [] agent = "faq" -> SimpleFAQResponseValid(r)
      [] OTHER -> AvatarResponseValid(r)

\* the gateway answer parses to an object that its response model accepts as
\* it is:
\* every field well typed, every list field a list of strings
SchemaConforming(agent, g) ==
    Parses(g) /\ g.kind = "object" /\ ResponseValid(agent, AsObject(g.obj))

ListFields == {"watchouts", "next_actions", "meal_plan", "avoid_list", "tips",
               "plan", "exercise", "env_setup", "warnings"}

\* C20: a schema-conforming answer whose list fields are lists of strings
\* passes the repairs of generate_json_response and of _fix_response_format
\* unchanged, whether they are applied once or twice, and the answer of a first
\* pass carries the model's lists as they came.
C20_NormalizationIdentity ==
    \A i \in DOMAIN calls :
        SchemaConforming(calls[i].agent, calls[i].g) =>
            /\ generate_json_response(calls[i].g) = AsObject(calls[i].g.obj)
            /\ RepairObject(RepairObject(calls[i].g.obj)) = calls[i].g.obj
            /\ fix_response_format(AsObject(calls[i].g.obj)) = AsObject(calls[i].g.obj)
            /\ fix_response_format(fix_response_format(AsObject(calls[i].g.obj))) = AsObject(calls[i].g.obj)
            /\ (calls[i].stage = "first" /\ i = Len(calls)) =>
                  /\ events[Len(events)].type = "specialist"
                  /\ \A f \in ListFields \cap DOMAIN events[Len(events)].specialist_response :
                        events[Len(events)].specialist_response[f] = Texts(calls[i].g.obj[f])

C20_Witness ==
    /\ pc = "closed"
    /\ Len(calls) = 2 /\ calls[2].agent = "trainer" /\ calls[2].g = Object(TrainerObj)
    /\ SchemaConforming("trainer", calls[2].g)
    /\ events[Len(events)].type = "specialist"
    /\ events[Len(events)].specialist_response.plan = <<"p">>

\* the stages of the calls made so far, in the order they were made
Stages == [i \in 1..Len(calls) |-> calls[i].stage]

\* C22: in one turn the gateway is called at most three times, in the order
\* router call, first-pass specialist call, fallback call, each at most once;
\* the router call has completed (its decision is known and its event is out)
\* before a specialist call is made; a fallback call is made only for a first
\* pass that failed, and nothing is called after it, whatever it returns.
C22_AtMostThreeCalls ==
    /\ Len(calls) <= 3
    /\ Stages = SubSeq(<<"router", "first", "fallback">>, 1, Len(calls))
    /\ Len(calls) >= 2 =>
          /\ router_response = RouterAgent_process(calls[1].g)
          /\ Len(events) >= 1 /\ events[1].type = "router"
          /\ calls[2].agent = agent_type
    /\ Len(calls) = 3 =>
          /\ ~AgentFirst(calls[2].agent, calls[2].g).ok
          /\ calls[3].agent = calls[2].agent
          /\ pc \in {"finish", "closed"}

C22_Witness ==
    /\ pc = "closed"
    /\ Len(calls) = 3 /\ calls[3].stage = "fallback" /\ calls[3].g = Fail
    /\ calls[2].g = Garbage /\ calls[1].g = Object(RouterObj("doctor", 90))
    /\ events[Len(events)].type = "specialist"
    /\ events[Len(events)].specialist_response = DoctorStatic

\* The event stream of a turn that runs alone, as a function of its request
\* and of the gateway's answers gs to its calls, in the order of the calls:
\* the router state, the transfer notice, the specialist state.  A part whose
\* answer has not come yet is left out.
AloneRouter(req, gs) == RouterAgent_process(gs[1])
AloneAgent(req, gs) == IF AloneRouter(req, gs).next = "router" THEN "faq" ELSE AloneRouter(req, gs).next

AloneTransfer(req, gs) ==
    LET rr == AloneRouter(req, gs)
    IN  IF rr.next # "router" /\ ShouldShowTransfer(req.conversation_summary, rr)
        THEN <<[type |-> "transfer",
                transfer |-> [message |-> TransferMessage(rr), target_agent |-> rr.next]]>>
        ELSE <<>>

AloneSpecialist(req, gs) ==
    LET rr == AloneRouter(req, gs)
        agent == AloneAgent(req, gs)
    IN  IF RequestRejected(agent, req.window_stats) THEN <<>>
        ELSE IF agent = "faq" /\ BuiltinMatch(req.user_message) # 0
        THEN <<SpecialistEvent(agent, rr, BuiltinAnswer(BuiltinMatch(req.user_message)))>>
        ELSE IF Len(gs) < 2 THEN <<>>
        ELSE IF AgentFirst(agent, gs[2]).ok
        THEN <<SpecialistEvent(agent, rr, AgentFirst(agent, gs[2]).resp)>>
        ELSE IF ~HasFallbackPrompt(agent)
        THEN <<SpecialistEvent(agent, rr, AgentStatic(agent))>>
        ELSE IF Len(gs) < 3 THEN <<>>
        ELSE <<SpecialistEvent(agent, rr, AgentFallback(agent, gs[3]))>>

AloneEvents(req, gs) ==
    IF Len(gs) < 1 THEN <<>>
    ELSE <<[type |-> "router", router_response |-> AloneRouter(req, gs)]>>
         \o AloneTransfer(req, gs) \o AloneSpecialist(req, gs)

\* the single chat turn of Spec is such a run: once its stream is over, its
\* events are the events of the run alone on the answers it got
AloneIsTheChatTurn ==
    (pc \in {"finish", "closed"} /\ Len(calls) >= 1) =>
        events = AloneEvents([user_message |-> user_message, conversation_summary |-> conversation_summary,
                              window_stats |-> window_stats],
                             [i \in 1..Len(calls) |-> calls[i].g])

IsPrefix(a, b) == Len(a) <= Len(b) /\ SubSeq(b, 1, Len(a)) = a

\* the calls a turn run alone makes on the answers gs: the router call, then
\* the first-pass call of the routed agent, then its fallback call
AloneStages(req, gs) ==
    [i \in 1..Len(gs) |-> [stage |-> <<"router", "first", "fallback">>[i],
                           agent |-> IF i = 1 THEN "router" ELSE AloneAgent(req, gs)]]

\* C21: a turn that runs interleaved with another turn, at the awaits of its
\* gateway calls and of its pacing delay, produces the event stream of the
\* same turn run alone on the same gateway answers: while it runs, what it has
\* yielded is a prefix of that stream and its calls are the calls of the run
\* alone; when it is over, its stream is that stream.  And a step of one turn
\* leaves the frame of the other turn as it was.
C21_TurnsIndependent ==
    /\ [](\A t \in DOMAIN turns :
            LET f == turns[t]
            IN  /\ IsPrefix(f.events, AloneEvents(f, f.responses))
                /\ \A i \in 1..Len(f.responses) :
                      /\ f.calls[i].stage = AloneStages(f, f.responses)[i].stage
                      /\ f.calls[i].agent = AloneStages(f, f.responses)[i].agent
                /\ f.pc = "done" => f.events = AloneEvents(f, f.responses))
    /\ [][\A t \in DOMAIN turns : \A u \in DOMAIN turns :
            (turns'[t] # turns[t] /\ u # t) => turns'[u] = turns[u]]_vars

\* both turns are under way at once, with different decisions: the first
\* waits for its fallback call, the second, routed meanwhile, for its first pass
C21_Witness ==
    /\ DOMAIN turns = Turns
    /\ turns[1].pc = "await_fallback" /\ turns[2].pc = "await_first"
    /\ turns[1].router_response.next = "doctor" /\ turns[2].router_response.next = "trainer"
    /\ turns[1].agent_type = "doctor" /\ turns[2].agent_type = "trainer"
    /\ Len(turns[1].events) = 2 /\ turns[1].events[2].type = "transfer"
    /\ Len(turns[2].events) = 2 /\ turns[2].events[2].transfer.target_agent = "trainer"

\* determine_response_language found no usable explicit language
NoExplicitLanguage == language \in {"None", ""} \/ language \notin SupportedLanguages

\* the two languages determine_response_language compares, for the
\* classifier's answers of the step
CurrentLanguage == detect_language(user_message, classifier.message)
HistoryLanguage == extract_language_from_conversation(conversation_summary, classifier.summary)

\* the message matches the lexical patterns of a language; only English and
\* Simplified Chinese have patterns
MatchesPatterns(message, lang) ==
    CASE lang = "en" -> \E w \in EnglishPatterns : WordMatch(message, w)
      [] lang = "zh-cn" -> \E i \in 1..Len(message) : message[i] \in ChinesePatterns
      [] OTHER -> FALSE

\* determine_response_language has run with a history language and without a
\* usable explicit language
HistoryCase == pc = "determined" /\ NoExplicitLanguage /\ HistoryLanguage # "None"

\* C23 (as claimed): with a history language, the history language is
\* returned unless the current-message language differs from it, the current
\* message is longer than 20 characters and it matches the lexical patterns of
\* its language.
C23_SwitchNeedsPatterns ==
    HistoryCase =>
        /\ response_language \in {CurrentLanguage, HistoryLanguage}
        /\ ~(/\ CurrentLanguage # HistoryLanguage
             /\ Len(user_message) > 20
             /\ MatchesPatterns(user_message, CurrentLanguage)) => response_language = HistoryLanguage

\* C23 (amended): with a history language, the current-message language is
\* returned exactly when it differs from the history language, the current
\* message without its surrounding whitespace is longer than 20 characters and,
\* if that language is English or Simplified Chinese, the message matches the
\* lexical patterns of the language; for any other language the length alone
\* decides.  In every other case the history language is returned.
C23_SwitchRule ==
    HistoryCase =>
        response_language =
            IF /\ CurrentLanguage # HistoryLanguage
               /\ Len(Strip(user_message)) > 20
               /\ CurrentLanguage \in {"en", "zh-cn"} => MatchesPatterns(user_message, CurrentLanguage)
            THEN CurrentLanguage
            ELSE HistoryLanguage

\* a long message in a language without patterns switches the language
C23_Witness ==
    /\ HistoryCase
    /\ CurrentLanguage = "ja" /\ HistoryLanguage = "en"
    /\ Len(user_message) > 20
    /\ response_language = "ja"

\* the response languages that detection on user_message alone can give the
\* router call of this turn, over the classifier's answers
MessageLanguages ==
    {determine_response_language(user_message, conversation_summary, language, cm, cs) :
        cm \in ClassifierOutcomes, cs \in ClassifierOutcomes}

\* the response languages the router call can be given in the turn that
\* differs from this one only in its pet profile pp
TwinLanguages(pp) ==
    {determine_response_language(RouterInput(conversation_summary, user_message, pp),
                                 conversation_summary, language, cm, cs) :
        cm \in ClassifierOutcomes, cs \in ClassifierOutcomes}

\* C24 (as claimed): without an explicit language, the response language of
\* the router call is one that detection on the text of user_message gives,
\* and it is a language the same turn with any other pet profile can be given.
C24_LanguageFromMessageOnly ==
    (Len(calls) >= 1 /\ language = "None") =>
        /\ calls[1].response_language \in MessageLanguages
        /\ \A pp \in PetProfiles \ {"invalid"} : calls[1].response_language \in TwinLanguages(pp)

\* the same gateway answer without its code fence
Unfenced(g) == [g EXCEPT !.fence = NoFence]

\* C25 (as claimed): a model output that is a valid JSON object wrapped in a
\* code fence, whatever follows the opening backticks, is parsed to the record
\* the unfenced object is parsed to.
C25_FenceRemoved ==
    \A i \in DOMAIN calls :
        (calls[i].g.kind = "object" /\ calls[i].g.fence # NoFence) =>
            /\ CleanText(ResponseText(calls[i].g)) = <<Document>>
            /\ generate_json_response(calls[i].g) = generate_json_response(Unfenced(calls[i].g))

\* the fields the specification names as list-shaped
NamedListFields == {"meal_plan", "tips", "next_actions", "plan", "env_setup"}

\* the gateway answer is an object with a keyed mapping in one of those fields
MappingIn(g, f) == g.kind = "object" /\ Has(g.obj, f) /\ g.obj[f].t = "dict"

\* C26 (as claimed): a keyed mapping in a list-shaped field (meal_plan, tips,
\* next_actions, plan, env_setup) never makes the first pass of the specialist
\* fail: the field is flattened and the first-pass answer is the event.
C26_MappingAccepted ==
    \A i \in DOMAIN calls :
        (calls[i].stage = "first" /\ \E f \in NamedListFields : MappingIn(calls[i].g, f)) =>
            /\ AgentFirst(calls[i].agent, calls[i].g).ok
            /\ (i < Len(calls) => calls[i + 1].stage # "fallback")

\* C27 (as claimed): when the router check obtains no routing decision from
\* the model (gateway failure, unparseable or incomplete output), its response
\* has needs_pet_status = TRUE.
C27_NoDecisionNeedsStatus ==
    (pc = "checked" /\ calls # <<>> /\ StageFailed(calls[1].g, RouterRequired)) =>
        returned.needs_pet_status

OutOfRange(x, range) == x # NoReading /\ (x < range.min \/ x > range.max)
Reports(result, types) == \E i \in DOMAIN result.anomalies : result.anomalies[i].type \in types

\* C28 (as claimed): detect_anomaly reports every supplied heart rate below 60
\* (0 included) or above 180 and every supplied temperature below 37.0
\* (0 included) or above 39.5 with a matching anomaly entry and the flag, and
\* the flag is true exactly when the anomalies list is not empty.
C28_EveryOutOfRangeReported ==
    returned.kind = "anomaly" =>
        /\ OutOfRange(vitals.heart_rate, Thresholds.heart_rate) =>
               returned.anomaly_detected /\ Reports(returned, {"low_heart_rate", "high_heart_rate"})
        /\ OutOfRange(vitals.temperature, Thresholds.temperature) =>
               returned.anomaly_detected /\ Reports(returned, {"low_temperature", "high_temperature"})
        /\ returned.anomaly_detected <=> returned.anomalies # <<>>

\* the tasks of a device that are neither cancelled nor ended
LiveTasks(d) == {i \in DOMAIN tasks : tasks[i].device = d /\ Live(tasks[i])}

\* C29: after any interleaving of start_monitoring and stop_monitoring a device
\* has at most one monitor task that is not cancelled, and it is the task
\* active_monitors holds for it; a start of a monitored device makes no task;
\* after stop_monitoring(d), d is absent from active_monitors and the task it
\* held is cancelled.
C29_OneMonitorPerDevice ==
    /\ [](\A d \in Devices :
            /\ Cardinality(LiveTasks(d)) <= 1
            /\ LiveTasks(d) = IF d \in DOMAIN active_monitors THEN {active_monitors[d]} ELSE {})
    /\ [][\A d \in Devices :
            /\ (\E i \in DOMAIN requests : requests[i].device = d /\ RunStart(i)) /\ d \in DOMAIN active_monitors
                   => tasks' = tasks /\ active_monitors' = active_monitors
            /\ StopMonitoring(d) =>
                   /\ d \notin DOMAIN active_monitors'
                   /\ LiveTasks(d)' = {}
                   /\ d \in DOMAIN active_monitors => ~Live(tasks'[active_monitors[d]])]_vars

\* d1 was started twice while monitored, stopped, and started again: three
\* start requests have run, two tasks exist, the first has ended and the
\* second is the one active_monitors holds
C29_Witness ==
    /\ Len(requests) = 3
    /\ \A i \in DOMAIN requests : requests[i].device = "d1" /\ requests[i].ran
    /\ Len(tasks) = 2
    /\ tasks[1].state = "ended"
    /\ tasks[2].state = "sleeping"
    /\ DOMAIN active_monitors = {"d1"}
    /\ active_monitors["d1"] = 2

EventsOf(type) == {i \in DOMAIN events : events[i].type = type}

\* C30: execute never raises (every turn it runs goes on to its return) and
\* returns the specialist answer if a specialist event was emitted, otherwise
\* the router decision if a router event was emitted, otherwise an error record.
C30_ExecuteReturnsLastAnswer ==
    consumer = "execute" =>
        /\ pc # "returned" => ENABLED ExecNext
        /\ pc = "returned" =>
            IF HasEvent("specialist")
            THEN \E i \in EventsOf("specialist") :
                    returned = [kind |-> "specialist", value |-> events[i].specialist_response]
            ELSE IF HasEvent("router")
            THEN returned = [kind |-> "router", value |-> router_response]
            ELSE returned.kind = "error"

\* a doctor turn run by execute: router, transfer and specialist events, the
\* specialist answer came from the fallback pass and is what execute returns
C30_Witness ==
    /\ consumer = "execute"
    /\ pc = "returned"
    /\ Len(events) = 3
    /\ events[2].type = "transfer"
    /\ events[3].type = "specialist"
    /\ Len(calls) = 3
    /\ returned.kind = "specialist"
    /\ returned.value = events[3].specialist_response

====
